---- MODULE Spec2Model ----
(***************************************************************************)
(* A model of reprobate: the budget-controlled repr of src/reprobate.      *)
(*                                                                         *)
(* Text is a TLA+ string (Len, \o and SubSeq act on it as on a Python str).*)
(* A Python object is an identity (a key of Heap) with its type and        *)
(* payload; a type carries its __mro__, its own __budget_repr__ hook and   *)
(* what reflection finds on it.  Each logical thread of execution runs a   *)
(* script of calls of the public functions (register, render,              *)
(* render_child); the interpreter state of a thread is its call stack, the *)
(* value being returned and its contextvars context.                       *)
(***************************************************************************)
EXTENDS Integers, Sequences, FiniteSets, TLC

\* ------------------------------------------------------------ constants
\* core.py:10
MIN_BUDGET == 5
\* core.py:11
MIN_CHILD_BUDGET == 15
\* core.py:21
CIRCULAR == "<...>"
\* core.py:17, the default of the _policy context variable
DEFAULT_POLICY == "greedy"
\* core.py:186, the cap of a mapping key's budget
KEY_CAP == 40
\* core.py:238, "remaining > MIN_CHILD_BUDGET + 15"
TAIL_EXTRA == 15
\* tests/test_core.py:308, the budget the cycle tests render at
TestBudget == 100
\* the one-character ellipsis U+2026 of _render_primitive (core.py:141),
\* written as a one-character ASCII stand-in
ELLIPSIS == "~"

\* ------------------------------------------------------------ bounds
\* budgets 0..MaxBudget (and TestBudget) are tried for every root value
MaxBudget == 48
\* the padding a misbehaving formatter adds beyond its budget
MaxOvershoot == 3

\* ------------------------------------------------------------ text helpers
Min(a, b) == IF a <= b THEN a ELSE b

Max(a, b) == IF a >= b THEN a ELSE b

\* Python s[:k], negative k included
PySlice(s, k) ==
    IF k >= 0 THEN SubSeq(s, 1, Min(k, Len(s)))
    ELSE SubSeq(s, 1, Max(0, Len(s) + k))

\* Python "sub in s"
Contains(s, sub) ==
    \E i \in 1..(Len(s) - Len(sub) + 1) : SubSeq(s, i, i + Len(sub) - 1) = sub

StartsWith(s, p) == Len(s) >= Len(p) /\ SubSeq(s, 1, Len(p)) = p

EndsWith(s, p) ==
    Len(s) >= Len(p) /\ SubSeq(s, Len(s) - Len(p) + 1, Len(s)) = p

\* Python ", ".join(parts)
RECURSIVE Join(_)
Join(parts) ==
    IF parts = <<>> THEN ""
    ELSE IF Len(parts) = 1 THEN parts[1]
    ELSE parts[1] \o ", " \o Join(Tail(parts))

\* Python str(n) of an int
Str(n) == ToString(n)

\* f"...{k} more"
More(k) == "..." \o Str(k) \o " more"

\* len(f", ...{k} more")
ReserveLen(k) == Len(", " \o More(k))

Range(f) == {f[i] : i \in DOMAIN f}

\* repr of a str: the quote Python picks, backslash and that quote escaped
RECURSIVE EscapeFrom(_, _, _)
EscapeFrom(s, i, quote) ==
    IF i > Len(s) THEN ""
    ELSE LET c == SubSeq(s, i, i)
             e == IF c = "\\" \/ c = quote THEN "\\" \o c ELSE c
         IN  e \o EscapeFrom(s, i + 1, quote)

EscapeChars(s, quote) == EscapeFrom(s, 1, quote)

QuoteOf(s) == IF Contains(s, "'") /\ ~Contains(s, "\"") THEN "\"" ELSE "'"

ReprStr(s) == QuoteOf(s) \o EscapeChars(s, QuoteOf(s)) \o QuoteOf(s)

\* A byte string is written with one character per byte; "#" stands for a
\* byte >= 0x80, which repr shows as a \x escape and which
\* decode('ascii', errors='replace') turns into one replacement character.
RECURSIVE EscapeBytesFrom(_, _, _)
EscapeBytesFrom(s, i, quote) ==
    IF i > Len(s) THEN ""
    ELSE LET c == SubSeq(s, i, i)
             e == IF c = "#" THEN "\\xff"
                  ELSE IF c = "\\" \/ c = quote THEN "\\" \o c ELSE c
         IN  e \o EscapeBytesFrom(s, i + 1, quote)

EscapeBytes(s, quote) == EscapeBytesFrom(s, 1, quote)

ReprBytes(s) == "b" \o QuoteOf(s) \o EscapeBytes(s, QuoteOf(s)) \o QuoteOf(s)

RECURSIVE DecodeFrom(_, _)
DecodeFrom(s, i) ==
    IF i > Len(s) THEN ""
    ELSE (IF SubSeq(s, i, i) = "#" THEN "?" ELSE SubSeq(s, i, i))
         \o DecodeFrom(s, i + 1)

DecodeReplace(s) == DecodeFrom(s, 1)

\* ------------------------------------------------------------ types
\* What the code asks of a type: its __mro__ (registry.py:29, isinstance),
\* the __budget_repr__ it defines itself (core.py:88), the _fields of a
\* namedtuple (core.py:122), dataclasses.is_dataclass (core.py:448), what
\* repr() does on an instance (core.py:450), whether len() works
\* (core.py:295) and where vars() finds the attributes (core.py:458-471).
TypeRec(mro, hook, fields, dataclass, repr, haslen, attrsrc) ==
    [mro |-> mro, hook |-> hook, fields |-> fields, dataclass |-> dataclass,
     repr |-> repr, haslen |-> haslen, attrsrc |-> attrsrc]

Builtin(mro, haslen) == TypeRec(mro, "none", <<>>, FALSE, "custom", haslen, "none")

UserType(mro, hook) == TypeRec(mro, hook, <<>>, FALSE, "default", "no", "dict")

Types ==
       "NoneType"    :> Builtin(<<"NoneType", "object">>, "no")
    @@ "bool"        :> Builtin(<<"bool", "int", "object">>, "no")
    @@ "int"         :> Builtin(<<"int", "object">>, "no")
    @@ "float"       :> Builtin(<<"float", "object">>, "no")
    @@ "str"         :> Builtin(<<"str", "object">>, "yes")
    @@ "bytes"       :> Builtin(<<"bytes", "object">>, "yes")
    @@ "dict"        :> Builtin(<<"dict", "object">>, "yes")
    @@ "defaultdict" :> Builtin(<<"defaultdict", "dict", "object">>, "yes")
    @@ "Counter"     :> Builtin(<<"Counter", "dict", "object">>, "yes")
    @@ "tuple"       :> Builtin(<<"tuple", "object">>, "yes")
    @@ "list"        :> Builtin(<<"list", "object">>, "yes")
    @@ "set"         :> Builtin(<<"set", "object">>, "yes")
    @@ "frozenset"   :> Builtin(<<"frozenset", "object">>, "yes")
    @@ "deque"       :> Builtin(<<"deque", "object">>, "yes")
    @@ "object"      :> Builtin(<<"object">>, "no")
    \* tests/test_core.py:188, a namedtuple
    @@ "Point"       :> TypeRec(<<"Point", "tuple", "object">>, "none",
                                <<"x", "y">>, FALSE, "custom", "yes", "none")
    \* tests/test_core.py:324, a plain class
    @@ "Node"        :> UserType(<<"Node", "object">>, "none")
    \* tests/test_core.py:384-396, dataclasses
    @@ "Inner"       :> TypeRec(<<"Inner", "object">>, "none", <<>>, TRUE,
                                "custom", "no", "dataclass")
    @@ "Outer"       :> TypeRec(<<"Outer", "object">>, "none", <<>>, TRUE,
                                "custom", "no", "dataclass")
    \* tests/test_core.py:427, a class with the protocol method
    @@ "WithProtocol" :> UserType(<<"WithProtocol", "object">>, "proto")
    \* tests/test_core.py:417, a class that gets a registered renderer, and
    \* two generations of subclasses of it
    @@ "MyType"      :> UserType(<<"MyType", "object">>, "none")
    @@ "MidType"     :> UserType(<<"MidType", "MyType", "object">>, "none")
    @@ "SubType"     :> UserType(<<"SubType", "MidType", "MyType", "object">>, "none")
    \* a subclass that inherits the protocol method
    @@ "SubProtocol" :> UserType(<<"SubProtocol", "WithProtocol", "object">>, "none")
    \* classes whose protocol method overshoots, raises, renders a child
    \* with render_child, guards a child render with try/except, or calls
    \* render() itself
    @@ "Padder"      :> UserType(<<"Padder", "object">>, "pad")
    @@ "Raiser"      :> UserType(<<"Raiser", "object">>, "raise")
    @@ "Wrapper"     :> UserType(<<"Wrapper", "object">>, "child")
    @@ "Catcher"     :> UserType(<<"Catcher", "object">>, "trychild")
    @@ "Nester"      :> UserType(<<"Nester", "object">>, "nested")
    \* tests/test_core.py:351-356, a dataclass of four text fields
    @@ "Wide"        :> TypeRec(<<"Wide", "object">>, "none", <<>>, TRUE,
                                "custom", "no", "dataclass")
    \* tests/test_core.py:113-117, a plain class with three attributes
    @@ "Thing"       :> UserType(<<"Thing", "object">>, "none")
    \* a class with a __repr__ of its own, one whose __repr__ raises, one
    \* with __slots__
    @@ "Rep"         :> TypeRec(<<"Rep", "object">>, "none", <<>>, FALSE,
                                "custom", "no", "dict")
    @@ "BadRep"      :> TypeRec(<<"BadRep", "object">>, "none", <<>>, FALSE,
                                "raises", "raises", "dict")
    @@ "Slotted"     :> TypeRec(<<"Slotted", "object">>, "none", <<>>, FALSE,
                                "default", "no", "slots")
    \* ext_numpy.py:13, numpy.ndarray, and the numpy scalar its .flat yields:
    \* not an int, with a __repr__ and neither __dict__ nor __slots__
    @@ "ndarray"     :> TypeRec(<<"ndarray", "object">>, "none", <<>>, FALSE,
                                "custom", "yes", "none")
    @@ "int64"       :> TypeRec(<<"int64", "object">>, "none", <<>>, FALSE,
                                "custom", "no", "none")
    \* ext_pandas.py:13, pandas.DataFrame, and a subclass whose __repr__
    \* raises
    @@ "DataFrame"   :> TypeRec(<<"DataFrame", "object">>, "none", <<>>, FALSE,
                                "custom", "yes", "dict")
    @@ "BrokenFrame" :> TypeRec(<<"BrokenFrame", "DataFrame", "object">>, "none",
                                <<>>, FALSE, "raises", "yes", "dict")

TypeNames == DOMAIN Types

\* isinstance(obj, cls) for an object of type ty
IsInstance(ty, cls) == cls \in Range(Types[ty].mro)

\* ------------------------------------------------------------ the heap
\* An object: its type, and the payload its type reads: n (the value of an
\* int or bool), s (the characters of a str or bytes, the repr of a float
\* or of an object with a __repr__, the default_factory name), items (the
\* elements in iteration order), pairs (<<key, value>> in insertion order)
\* and attrs (<<name, value>> as vars() lists them).
Obj(type, n, s, items, pairs, attrs) ==
    [type |-> type, n |-> n, s |-> s, items |-> items, pairs |-> pairs,
     attrs |-> attrs]

IntObj(n) == Obj("int", n, "", <<>>, <<>>, <<>>)

StrObj(s) == Obj("str", 0, s, <<>>, <<>>, <<>>)

SeqObj(type, items) == Obj(type, 0, "", items, <<>>, <<>>)

MapObj(type, factory, pairs) == Obj(type, 0, factory, <<>>, pairs, <<>>)

AttrObj(type, attrs) == Obj(type, 0, "", <<>>, <<>>, attrs)

Heap ==
       "none"      :> Obj("NoneType", 0, "", <<>>, <<>>, <<>>)
    @@ "true"      :> Obj("bool", 1, "", <<>>, <<>>, <<>>)
    @@ "i1"        :> IntObj(1)
    @@ "i2"        :> IntObj(2)
    @@ "i3"        :> IntObj(3)
    @@ "i42"       :> IntObj(42)
    @@ "big"       :> IntObj(12345678)
    @@ "neg"       :> IntObj(-5)
    @@ "pi"        :> Obj("float", 0, "3.14", <<>>, <<>>, <<>>)
    @@ "hello"     :> StrObj("hello")
    @@ "long"      :> StrObj("hello world hello world")
    @@ "its"       :> StrObj("it's")
    @@ "slashes"   :> StrObj("\\\\\\\\\\")
    @@ "xs"        :> StrObj("xxxxx")
    @@ "ys"        :> StrObj("yyyyy")
    @@ "kself"     :> StrObj("self")
    @@ "ka"        :> StrObj("a")
    @@ "kb"        :> StrObj("b")
    @@ "bytes"     :> Obj("bytes", 0, "abc#abcabcabc", <<>>, <<>>, <<>>)
    @@ "ebytes"    :> Obj("bytes", 0, "", <<>>, <<>>, <<>>)
    \* tests/test_core.py:305-336, the cyclic structures
    @@ "selfList"  :> SeqObj("list", <<"i1", "i2", "selfList">>)
    @@ "selfDict"  :> MapObj("dict", "", << <<"kself", "selfDict">> >>)
    @@ "node"      :> AttrObj("Node", << <<"child", "node">> >>)
    @@ "mutA"      :> SeqObj("list", <<"mutB">>)
    @@ "mutB"      :> SeqObj("list", <<"mutA">>)
    \* tests/test_core.py:338-346, one list referenced twice
    @@ "shared"    :> SeqObj("list", <<"i1", "i2", "i3">>)
    @@ "twice"     :> SeqObj("list", <<"shared", "shared">>)
    @@ "elist"     :> SeqObj("list", <<>>)
    @@ "etuple"    :> SeqObj("tuple", <<>>)
    @@ "eset"      :> SeqObj("set", <<>>)
    @@ "efset"     :> SeqObj("frozenset", <<>>)
    @@ "edeque"    :> SeqObj("deque", <<>>)
    @@ "edict"     :> MapObj("dict", "", <<>>)
    @@ "ecounter"  :> MapObj("Counter", "", <<>>)
    @@ "range"     :> SeqObj("list", <<"i1", "i2", "i3", "i42", "big", "neg",
                                        "i1", "i2", "i3", "i42", "big", "neg">>)
    @@ "pair"      :> SeqObj("tuple", <<"i42", "hello">>)
    @@ "mixed"     :> SeqObj("list", <<"long", "bytes", "pair", "none">>)
    @@ "set3"      :> SeqObj("set", <<"i1", "i2", "i3">>)
    @@ "fset"      :> SeqObj("frozenset", <<"i1", "hello">>)
    @@ "deque"     :> SeqObj("deque", <<"i1", "i2", "i3", "i42">>)
    @@ "dict3"     :> MapObj("dict", "", << <<"hello", "i1">>, <<"long", "shared">>,
                                           <<"pair", "long">> >>)
    @@ "dd"        :> MapObj("defaultdict", "list", << <<"ka", "shared">>,
                                                      <<"kb", "elist">> >>)
    @@ "counter"   :> MapObj("Counter", "", << <<"ka", "i2">>, <<"kb", "i3">>,
                                              <<"hello", "i1">> >>)
    @@ "point"     :> SeqObj("Point", <<"i1", "i2">>)
    \* tests/test_core.py:384-401
    @@ "inner1"    :> AttrObj("Inner", << <<"x", "xs">>, <<"y", "ys">> >>)
    @@ "inner2"    :> AttrObj("Inner", << <<"x", "xs">>, <<"y", "ys">> >>)
    @@ "outer"     :> AttrObj("Outer", << <<"first", "inner1">>,
                                          <<"second", "inner2">> >>)
    @@ "proto"     :> AttrObj("WithProtocol", <<>>)
    @@ "subproto"  :> AttrObj("SubProtocol", <<>>)
    @@ "my"        :> AttrObj("MyType", <<>>)
    @@ "mid"       :> AttrObj("MidType", << <<"name", "hello">> >>)
    @@ "sub"       :> AttrObj("SubType", << <<"name", "hello">>, <<"_hid", "i1">>,
                                            <<"inner", "inner1">> >>)
    @@ "padder"    :> AttrObj("Padder", <<>>)
    @@ "raiser"    :> AttrObj("Raiser", <<>>)
    @@ "holds"     :> SeqObj("list", <<"i1", "raiser", "i2">>)
    @@ "wrapper"   :> AttrObj("Wrapper", << <<"item", "wrapper">> >>)
    @@ "wrapList"  :> AttrObj("Wrapper", << <<"item", "shared">> >>)
    @@ "catcher"   :> AttrObj("Catcher", << <<"a", "holds">>, <<"b", "catcher">> >>)
    @@ "nester"    :> AttrObj("Nester", << <<"a", "selfList">>, <<"b", "nester">> >>)
    @@ "nester2"   :> AttrObj("Nester", << <<"a", "outer">>, <<"b", "inner1">> >>)
    @@ "rep"       :> Obj("Rep", 0, "Rep(custom)", <<>>, <<>>, << <<"v", "long">> >>)
    @@ "badrep"    :> AttrObj("BadRep", << <<"v", "i1">>, <<"w", "badrep">> >>)
    @@ "slotted"   :> AttrObj("Slotted", << <<"p", "i1">>, <<"_q", "i2">> >>)
    \* tests/test_core.py:351-356
    @@ "alpha"     :> StrObj("alpha")
    @@ "bravo"     :> StrObj("bravo")
    @@ "charlie"   :> StrObj("charlie")
    @@ "delta"     :> StrObj("delta")
    @@ "wide"      :> AttrObj("Wide", << <<"a", "alpha">>, <<"b", "bravo">>,
                                         <<"c", "charlie">>, <<"d", "delta">> >>)
    \* tests/test_core.py:113-117
    @@ "eat"       :> StrObj("a long enough name to eat the budget")
    @@ "key"       :> StrObj("key")
    @@ "val"       :> StrObj("val")
    @@ "meta"      :> MapObj("dict", "", << <<"key", "val">> >>)
    @@ "thing"     :> AttrObj("Thing", << <<"name", "eat">>, <<"data", "shared">>,
                                          <<"meta", "meta">> >>)
    \* long sequences of long entries, and a dict with a key longer than
    \* the cap on key budgets
    @@ "longs"     :> SeqObj("list", <<"long", "eat", "long", "eat", "long", "eat",
                                        "long", "eat", "long", "eat", "long", "eat">>)
    @@ "longt"     :> SeqObj("tuple", <<"long", "big", "eat", "long", "hello">>)
    @@ "dlong"     :> MapObj("dict", "", << <<"hello", "long">>, <<"ka", "i2">>,
                                           <<"kb", "i3">> >>)
    @@ "k50"       :> StrObj("kkkkkkkkkkkkkkkkkkkkkkkkkkkkkkkkkkkkkkkkkkkkkkkkkk")
    @@ "bigkey"    :> MapObj("dict", "", << <<"k50", "i1">>, <<"eat", "long">>,
                                            <<"hello", "eat">> >>)
    \* numpy.array([1, 2, 3]) and numpy.array([1]) of dtype int64: s is the
    \* repr, items what .flat yields
    @@ "n1"        :> Obj("int64", 0, "np.int64(1)", <<>>, <<>>, <<>>)
    @@ "n2"        :> Obj("int64", 0, "np.int64(2)", <<>>, <<>>, <<>>)
    @@ "n3"        :> Obj("int64", 0, "np.int64(3)", <<>>, <<>>, <<>>)
    @@ "vec"       :> Obj("ndarray", 0, "array([1, 2, 3])", <<"n1", "n2", "n3">>,
                          <<>>, <<>>)
    @@ "solo"      :> Obj("ndarray", 0, "array([1])", <<"n1">>, <<>>, <<>>)
    \* a DataFrame of 2 rows with the columns a, b, hello: n is the number of
    \* rows, s the repr, items the column names
    @@ "frame"     :> Obj("DataFrame", 2, "   a  b  hello|0  1  2      3|1  4  5      6",
                          <<"ka", "kb", "hello">>, <<>>, <<>>)
    @@ "broken"    :> Obj("BrokenFrame", 2, "", <<"ka", "kb", "hello">>, <<>>, <<>>)

Ids == DOMAIN Heap

TypeOf(id) == Heap[id].type

\* ------------------------------------------------------------ leaves
\* repr() of None, a bool, an int or a float
ReprPrimitive(id) ==
    LET o == Heap[id]
    IN  CASE o.type = "NoneType" -> "None"
          [] o.type = "bool" -> (IF o.n = 0 THEN "False" ELSE "True")
          [] o.type = "float" -> o.s
          [] OTHER -> Str(o.n)

_render_primitive(id, budget) ==
    LET r == ReprPrimitive(id)
    IN  IF Len(r) <= budget THEN r ELSE PySlice(r, budget - 1) \o ELLIPSIS

\* a _render_str that reserves 4 characters for the 5 around the kept part
_render_str_wide(id, budget) ==
    LET obj == Heap[id].s
        r == ReprStr(obj)
        quote == SubSeq(r, 1, 1)
        inner == budget - 4
    IN  IF Len(r) <= budget THEN r
        ELSE IF budget < 6 THEN PySlice(r, budget)
        ELSE quote \o PySlice(obj, inner) \o "..." \o quote

_render_str(id, budget) ==
    LET obj == Heap[id].s
        r == ReprStr(obj)
        quote == SubSeq(r, 1, 1)
        inner == budget - 5
    IN  IF Len(r) <= budget THEN r
        ELSE IF budget < 6 THEN PySlice(r, budget)
        ELSE quote \o PySlice(obj, inner) \o "..." \o quote

_render_bytes(id, budget) ==
    LET obj == Heap[id].s
        r == ReprBytes(obj)
        inner == budget - 5
    IN  IF Len(r) <= budget THEN r
        ELSE IF budget < 6 THEN PySlice(r, budget)
        ELSE "b'" \o DecodeReplace(PySlice(obj, inner)) \o "...'"

\* ------------------------------------------------------------ registry
\* ------------------------------------------------------------ faulty variants
\* What a wrong implementation would compute; each claim below is also
\* run against the one that breaks it.
\* a lookup of the exact class only, no walk of the __mro__
get_renderer_exact(reg, cls) == IF cls \in DOMAIN reg THEN reg[cls] ELSE "none"

\* getattr(type(obj), "__budget_repr__", None): the first class of the
\* __mro__ that defines the method
RECURSIVE FirstHook(_)
FirstHook(mro) ==
    IF mro = <<>> THEN "none"
    ELSE IF Types[Head(mro)].hook # "none" THEN Types[Head(mro)].hook
    ELSE FirstHook(Tail(mro))

HookOf(ty) == FirstHook(Types[ty].mro)

\* registry.get_renderer: the registry is a function from the registered
\* classes to their renderer; "none" stands for None
RECURSIVE FirstRegistered(_, _)
FirstRegistered(reg, mro) ==
    IF mro = <<>> THEN "none"
    ELSE IF Head(mro) \in DOMAIN reg THEN reg[Head(mro)]
    ELSE FirstRegistered(reg, Tail(mro))

get_renderer(reg, cls) == FirstRegistered(reg, Types[cls].mro)

\* registry.register(cls)(fn): _registry[cls] = fn
register(reg, cls, fn) == (cls :> fn) @@ reg

\* ------------------------------------------------------------ dispatch
\* core.py:65, the types render_child keeps out of the cycle guard
IsExempt(ty) ==
    \E c \in {"NoneType", "bool", "int", "float", "str", "bytes"} : IsInstance(ty, c)

\* a dispatcher that asks the registry before the protocol method
BranchRegistryFirst(reg, ty) ==
    IF get_renderer(reg, ty) # "none" THEN "registry"
    ELSE IF HookOf(ty) # "none" THEN "hook"
    ELSE "generic"

\* _render_inner: which of its three returns runs
Branch(reg, ty) ==
    IF HookOf(ty) # "none" THEN "hook"
    ELSE IF get_renderer(reg, ty) # "none" THEN "registry"
    ELSE "generic"

\* _render_generic: the function the isinstance chain ends in
_render_generic(ty) ==
    IF ty = "NoneType" \/ IsInstance(ty, "bool") \/ IsInstance(ty, "int")
          \/ IsInstance(ty, "float") THEN "_render_primitive"
    ELSE IF IsInstance(ty, "str") THEN "_render_str"
    ELSE IF IsInstance(ty, "bytes") THEN "_render_bytes"
    ELSE IF IsInstance(ty, "defaultdict") THEN "_render_defaultdict"
    ELSE IF IsInstance(ty, "Counter") THEN "_render_counter"
    ELSE IF IsInstance(ty, "dict") THEN "_render_dict"
    ELSE IF IsInstance(ty, "tuple") /\ Types[ty].fields # <<>> THEN "_render_namedtuple"
    ELSE IF IsInstance(ty, "list") \/ IsInstance(ty, "tuple") THEN "_render_sequence"
    ELSE IF IsInstance(ty, "set") \/ IsInstance(ty, "frozenset") THEN "_render_set"
    ELSE IF IsInstance(ty, "deque") THEN "_render_deque"
    ELSE "_render_object"

Leaves == {"_render_primitive", "_render_str", "_render_bytes"}

LeafText(fn, id, budget) ==
    CASE fn = "_render_primitive" -> _render_primitive(id, budget)
      [] fn = "_render_str" -> _render_str(id, budget)
      [] OTHER -> _render_bytes(id, budget)

\* ------------------------------------------------------------ state
Threads == {1, 2}

VARIABLES
    registry,   \* registry._registry: registered class -> renderer
    script,     \* per thread: the calls its client code makes, in order
    pos,        \* per thread: how many of them it has made
    stack,      \* per thread: the call stack, the innermost frame last
    ret,        \* per thread: the value or exception a callee just left
    ctx,        \* per context: the _seen and _policy context variables
    results     \* per thread: what each finished call gave its client

vars == <<registry, script, pos, stack, ret, ctx, results>>

NoRet == [kind |-> "none", text |-> ""]

Val(text) == [kind |-> "val", text |-> text]

Exc(name) == [kind |-> "exc", text |-> name]

\* A context with neither variable set: _seen has no default (core.py:19),
\* _policy reads as its default (core.py:16-18).
EmptyCtx == [has_seen |-> FALSE, seen |-> {}, policy |-> "unset"]

\* module globals in place of context variables: one context for all threads
SharedKey(t) == 1

\* a render_attrs that never reads the context variable
PolicyGetDefault(c) == DEFAULT_POLICY

\* a render_child without the membership test
SeenHasNever(seen, id) == FALSE

\* a discard after the call in place of a finally: skipped by an exception
SeenDiscardOnReturn(seen, id, how) == IF how = "exc" THEN seen ELSE seen \ {id}

\* contextvars: each thread (and each task) runs in a context of its own
CtxKey(t) == t

\* _policy.get()
PolicyGet(c) == IF c.policy = "unset" THEN DEFAULT_POLICY ELSE c.policy

\* the policy parameter of render, "omitted" when the caller gives none
\* (core.py:24)
PolicyArg(p) == IF p = "omitted" THEN "greedy" ELSE p

\* obj_id in seen, core.py:74
SeenHas(seen, id) == id \in seen

\* seen.add(obj_id), core.py:76
SeenAdd(seen, id) == seen \cup {id}

\* a guard that remembers every identity it has met during the render
SeenDiscardNever(seen, id, how) == seen

\* seen.discard(obj_id) in the finally of core.py:79-80; how is "val" or
\* "exc", the way the inner render ended
SeenDiscard(seen, id, how) == seen \ {id}

\* A frame of the call stack.  fn is the function, pc where it stands, the
\* rest its arguments and locals (those a function does not use keep the
\* values below).
NewFrame(fn, obj, budget) ==
    [fn |-> fn, pc |-> "start", obj |-> obj, budget |-> budget,
     branch |-> "", guarded |-> FALSE, tok |-> EmptyCtx, policy |-> "",
     elems |-> <<>>, open_b |-> "", close_b |-> "", type_name |-> "",
     remaining |-> 0, available |-> 0, sep_cost |-> 0, parts |-> <<>>,
     idx |-> 0, key_r |-> "", even |-> FALSE, prog |-> "", used |-> 0]

Top(t) == stack[t][Len(stack[t])]

Running(t, fn, pc) ==
    /\ stack[t] # <<>>
    /\ Top(t).fn = fn
    /\ Top(t).pc = pc

\* the frames below the innermost one
Below(t) == SubSeq(stack[t], 1, Len(stack[t]) - 1)

\* The innermost frame returns v to its caller; the client of an outermost
\* call gets it as that call's result.
Return(t, v) ==
    /\ stack' = [stack EXCEPT ![t] = Below(t)]
    /\ IF Below(t) = <<>>
       THEN /\ results' = [results EXCEPT ![t] = Append(@, v)]
            /\ ret' = [ret EXCEPT ![t] = NoRet]
       ELSE /\ ret' = [ret EXCEPT ![t] = v]
            /\ UNCHANGED results

\* The innermost frame, now f, calls g.
Call(t, f, g) ==
    /\ stack' = [stack EXCEPT ![t] = Append(Append(Below(t), f), g)]
    /\ ret' = [ret EXCEPT ![t] = NoRet]
    /\ UNCHANGED results

\* The innermost frame goes on as f.
Goto(t, f) ==
    /\ stack' = [stack EXCEPT ![t] = Append(Below(t), f)]
    /\ ret' = [ret EXCEPT ![t] = NoRet]
    /\ UNCHANGED results

ChildFrame(obj, budget) == NewFrame("render_child", obj, budget)

\* ------------------------------------------------------------ client calls
NextCall(t) == script[t][pos[t] + 1]

CanCall(t, op) ==
    /\ stack[t] = <<>>
    /\ pos[t] < Len(script[t])
    /\ NextCall(t).op = op

\* register(cls)(fn)
CallRegister(t) ==
    /\ CanCall(t, "register")
    /\ registry' = register(registry, NextCall(t).cls, NextCall(t).fn)
    /\ pos' = [pos EXCEPT ![t] = @ + 1]
    /\ results' = [results EXCEPT ![t] = Append(@, Val(NextCall(t).fn))]
    /\ UNCHANGED <<script, stack, ret, ctx>>

\* render, core.py:44-47: both context variables are set, their tokens kept,
\* and render_child is called; base is the stack of the caller
RenderEntry(t, base, obj, budget, policy) ==
    LET k == CtxKey(t)
        f == [NewFrame("render", obj, budget) EXCEPT
                 !.pc = "wait", !.tok = ctx[k], !.policy = PolicyArg(policy)]
    IN  /\ ctx' = [ctx EXCEPT ![k] = [has_seen |-> TRUE, seen |-> {},
                                      policy |-> PolicyArg(policy)]]
        /\ stack' = [stack EXCEPT ![t] = Append(Append(base, f), ChildFrame(obj, budget))]
        /\ ret' = [ret EXCEPT ![t] = NoRet]

CallRender(t) ==
    /\ CanCall(t, "render")
    /\ RenderEntry(t, <<>>, NextCall(t).obj, NextCall(t).budget, NextCall(t).policy)
    /\ pos' = [pos EXCEPT ![t] = @ + 1]
    /\ UNCHANGED <<registry, script, results>>

\* a render that leaves both variables as the call set them
ResetCtxKeep(c, tok) == c

\* _seen.reset(seen_token); _policy.reset(policy_token), core.py:49-50
ResetCtx(c, tok) ==
    [has_seen |-> tok.has_seen, seen |-> tok.seen, policy |-> tok.policy]

\* render, core.py:48-50: the finally, on a return and on an exception
RenderReturn(t) ==
    /\ Running(t, "render", "wait")
    /\ ret[t].kind # "none"
    /\ ctx' = [ctx EXCEPT ![CtxKey(t)] = ResetCtx(@, Top(t).tok)]
    /\ Return(t, ret[t])
    /\ UNCHANGED <<registry, script, pos>>

\* render_child called by client code, with no render around it
CallRenderChild(t) ==
    /\ CanCall(t, "render_child")
    /\ stack' = [stack EXCEPT ![t] = <<ChildFrame(NextCall(t).obj, NextCall(t).budget)>>]
    /\ pos' = [pos EXCEPT ![t] = @ + 1]
    /\ UNCHANGED <<registry, script, ret, ctx, results>>

\* ------------------------------------------------------------ render_child
\* The frame _render_inner runs for obj: the hook or the registered
\* renderer (a formatter frame), or the function _render_generic picks.
InnerFrame(reg, obj, budget) ==
    LET ty == TypeOf(obj)
        br == Branch(reg, ty)
    IN  IF br = "hook"
        THEN [NewFrame("formatter", obj, budget) EXCEPT !.prog = HookOf(ty)]
        ELSE IF br = "registry"
        THEN [NewFrame("formatter", obj, budget) EXCEPT !.prog = get_renderer(reg, ty)]
        ELSE [NewFrame(_render_generic(ty), obj, budget) EXCEPT
                 !.elems = IF _render_generic(ty) = "_render_dict"
                           THEN Heap[obj].pairs ELSE <<>>]

\* a floor that only asks whether the placeholder itself fits
TooSmallForMarker(budget) == budget < Len("...")

\* core.py:59, the budgets render_child answers with the placeholder
TooSmall(budget) == budget < MIN_BUDGET

\* render_child, core.py:59-78 and 82, up to the call of _render_inner
RenderChildEnter(t) ==
    /\ Running(t, "render_child", "start")
    /\ LET f == Top(t)
           k == CtxKey(t)
           ty == TypeOf(f.obj)
           guarded == ~IsExempt(ty)
           inner == InnerFrame(registry, f.obj, f.budget)
           g == [f EXCEPT !.pc = "exit", !.guarded = guarded,
                          !.branch = Branch(registry, ty)]
       IN  IF TooSmall(f.budget)
           THEN Return(t, Val(PySlice("...", f.budget))) /\ UNCHANGED ctx
           ELSE IF guarded /\ ~ctx[k].has_seen
           THEN Return(t, Exc("RuntimeError")) /\ UNCHANGED ctx
           ELSE IF guarded /\ SeenHas(ctx[k].seen, f.obj)
           THEN Return(t, Val(PySlice(CIRCULAR, f.budget))) /\ UNCHANGED ctx
           ELSE /\ ctx' = [ctx EXCEPT ![k].seen =
                              IF guarded THEN SeenAdd(@, f.obj) ELSE @]
                /\ IF inner.fn \in Leaves
                   THEN /\ stack' = [stack EXCEPT ![t] = Append(Below(t), g)]
                        /\ ret' = [ret EXCEPT ![t] =
                                      Val(LeafText(inner.fn, f.obj, f.budget))]
                        /\ UNCHANGED results
                   ELSE Call(t, g, inner)
    /\ UNCHANGED <<registry, script, pos>>

\* _render_inner, core.py:90 and 95: the hook's and the registered
\* renderer's text is sliced to budget; core.py:98: the fallback's is not
Clamp(branch, text, budget) ==
    IF branch \in {"hook", "registry"} THEN PySlice(text, budget) ELSE text

\* render_child, core.py:78-82: _render_inner has returned or raised; the
\* finally discards the identity
RenderChildExit(t) ==
    /\ Running(t, "render_child", "exit")
    /\ ret[t].kind # "none"
    /\ LET f == Top(t)
           k == CtxKey(t)
       IN  /\ ctx' = [ctx EXCEPT ![k].seen =
                         IF f.guarded THEN SeenDiscard(@, f.obj, ret[t].kind) ELSE @]
           /\ Return(t, IF ret[t].kind = "val"
                        THEN Val(Clamp(f.branch, ret[t].text, f.budget))
                        ELSE ret[t])
    /\ UNCHANGED <<registry, script, pos>>

\* ------------------------------------------------------------ allocators
\* an allocator that hands its whole budget, brackets included, to an entry
AvailableWhole(remaining, sep_cost, omitted) == remaining + 2

\* an allocator that keeps no room for the marker
ReserveNothing(omitted) == 0

\* The budget an entry may use (core.py:181-184, 223-226, 272-275):
\* remaining less the separator and less the room kept for the
\* ", ...K more" that reports the other omitted entries.
Reserve(omitted) == IF omitted > 1 THEN ReserveLen(omitted - 1) ELSE 0

Available(remaining, sep_cost, omitted) == remaining - sep_cost - Reserve(omitted)

SepCost(parts) == IF parts # <<>> THEN 2 ELSE 0

\* f"{open_b}...{n} items{close_b}"
ItemsTag(open_b, n, close_b) == open_b \o "..." \o Str(n) \o " items" \o close_b

\* a marker that forgets the entry the loop stopped at
WithMoreOneShort(parts, omitted) ==
    IF omitted > 1 THEN Append(parts, More(omitted - 1)) ELSE parts

\* the parts and, when entries are omitted, the marker after them
WithMore(parts, omitted) == IF omitted > 0 THEN Append(parts, More(omitted)) ELSE parts

\* An exception raised in a callee passes through a function without a
\* try around the call.
Propagate(t) ==
    /\ stack[t] # <<>>
    /\ ret[t].kind = "exc"
    /\ Top(t).fn \notin {"render", "render_child"}
    /\ ~(Top(t).fn = "formatter" /\ Top(t).pc = "try_ret")
    /\ Return(t, ret[t])
    /\ UNCHANGED <<registry, script, pos, ctx>>

\* ---- _render_sequence, core.py:206-248
SeqBrackets(ty) == IF IsInstance(ty, "tuple") THEN <<"(", ")">> ELSE <<"[", "]">>

SeqStart(t) ==
    /\ Running(t, "_render_sequence", "start")
    /\ LET f == Top(t)
           obj == Heap[f.obj].items
           b == SeqBrackets(TypeOf(f.obj))
           n == Len(obj)
           tag == ItemsTag(b[1], n, b[2])
       IN  IF obj = <<>> THEN Return(t, Val(b[1] \o b[2]))
           ELSE IF f.budget <= Len(tag) THEN Return(t, Val(PySlice(tag, f.budget)))
           ELSE Goto(t, [f EXCEPT !.pc = "head", !.elems = obj, !.open_b = b[1],
                                  !.close_b = b[2], !.remaining = f.budget - 2])
    /\ UNCHANGED <<registry, script, pos, ctx>>

\* core.py:239
TailBudget(remaining, omitted) ==
    Min(remaining - Len(", " \o More(omitted - 1) \o ", "), remaining \div 3)

\* core.py:246-248
SeqResult(f, omitted, tail_parts) ==
    f.open_b \o Join(WithMore(f.parts, omitted) \o tail_parts) \o f.close_b

\* One pass of the head loop, core.py:222-231, and, when the loop ends, the
\* tail decision of core.py:237-241.
SeqHead(t) ==
    /\ Running(t, "_render_sequence", "head")
    /\ LET f == Top(t)
           n == Len(f.elems)
           sep_cost == SepCost(f.parts)
           available == Available(f.remaining, sep_cost, n - f.idx)
           omitted == n - f.idx
           tail_budget == TailBudget(f.remaining, omitted)
       IN  IF f.idx < n /\ available >= MIN_CHILD_BUDGET
           THEN Call(t, [f EXCEPT !.pc = "head_ret", !.sep_cost = sep_cost,
                                  !.available = available],
                     ChildFrame(f.elems[f.idx + 1], available))
           ELSE IF omitted > 1 /\ f.remaining > MIN_CHILD_BUDGET + TAIL_EXTRA
                   /\ tail_budget >= MIN_CHILD_BUDGET
           THEN Call(t, [f EXCEPT !.pc = "tail_ret", !.available = tail_budget],
                     ChildFrame(f.elems[n], tail_budget))
           ELSE Return(t, Val(SeqResult(f, omitted, <<>>)))
    /\ UNCHANGED <<registry, script, pos, ctx>>

\* A child render returns: to the head loop, core.py:232-234, or from the
\* tail item, core.py:242-248
SeqChildRet(t) ==
    /\ stack[t] # <<>>
    /\ Top(t).fn = "_render_sequence"
    /\ Top(t).pc \in {"head_ret", "tail_ret"}
    /\ ret[t].kind = "val"
    /\ LET f == Top(t)
           part == ret[t].text
       IN  IF f.pc = "head_ret"
           THEN Goto(t, [f EXCEPT !.pc = "head", !.parts = Append(@, part),
                                  !.remaining = @ - (Len(part) + f.sep_cost),
                                  !.idx = @ + 1])
           ELSE Return(t, Val(SeqResult(f, Len(f.elems) - f.idx - 1, <<part>>)))
    /\ UNCHANGED <<registry, script, pos, ctx>>

\* ---- _render_dict, core.py:166-203; elems is its argument's items()
DictStart(t) ==
    /\ Running(t, "_render_dict", "start")
    /\ LET f == Top(t)
           n == Len(f.elems)
           tag == ItemsTag("{", n, "}")
       IN  IF f.elems = <<>> THEN Return(t, Val("{}"))
           ELSE IF f.budget < Len(tag)
           THEN Return(t, Val(IF f.budget >= 2 THEN PySlice("{...}", f.budget)
                              ELSE PySlice("{", f.budget)))
           ELSE IF f.budget <= Len(tag) THEN Return(t, Val(tag))
           ELSE Goto(t, [f EXCEPT !.pc = "loop", !.remaining = f.budget - 2])
    /\ UNCHANGED <<registry, script, pos, ctx>>

\* core.py:199-203
DictResult(f) ==
    "{" \o Join(WithMore(f.parts, Len(f.elems) - f.idx)) \o "}"

\* a dict renderer that lets the key use all that is available
KeyBudgetWhole(available) == available

\* core.py:186, the budget of a key
KeyBudget(available) == Min(available \div 2, KEY_CAP)

\* core.py:180-186
DictLoop(t) ==
    /\ Running(t, "_render_dict", "loop")
    /\ LET f == Top(t)
           n == Len(f.elems)
           sep_cost == SepCost(f.parts)
           available == Available(f.remaining, sep_cost, n - f.idx)
       IN  IF f.idx < n
           THEN Call(t, [f EXCEPT !.pc = "key_ret", !.sep_cost = sep_cost,
                                  !.available = available],
                     ChildFrame(f.elems[f.idx + 1][1],
                                KeyBudget(available)))
           ELSE Return(t, Val(DictResult(f)))
    /\ UNCHANGED <<registry, script, pos, ctx>>

\* core.py:187-193
DictKeyRet(t) ==
    /\ Running(t, "_render_dict", "key_ret")
    /\ ret[t].kind = "val"
    /\ LET f == Top(t)
           prefix == ret[t].text \o ": "
           val_budget == f.available - Len(prefix)
       IN  IF val_budget < MIN_CHILD_BUDGET
           THEN Return(t, Val(DictResult(f)))
           ELSE Call(t, [f EXCEPT !.pc = "val_ret", !.key_r = prefix],
                     ChildFrame(f.elems[f.idx + 1][2], val_budget))
    /\ UNCHANGED <<registry, script, pos, ctx>>

\* core.py:194-197
DictValRet(t) ==
    /\ Running(t, "_render_dict", "val_ret")
    /\ ret[t].kind = "val"
    /\ LET f == Top(t)
           part == f.key_r \o ret[t].text
       IN  Goto(t, [f EXCEPT !.pc = "loop", !.parts = Append(@, part),
                             !.remaining = @ - (Len(part) + f.sep_cost),
                             !.idx = @ + 1])
    /\ UNCHANGED <<registry, script, pos, ctx>>

\* ---- _render_set, core.py:251-289
SetStart(t) ==
    /\ Running(t, "_render_set", "start")
    /\ LET f == Top(t)
           obj == Heap[f.obj].items
           frozen == IsInstance(TypeOf(f.obj), "frozenset")
           open_b == (IF frozen THEN "frozenset(" ELSE "") \o "{"
           close_b == "}" \o (IF frozen THEN ")" ELSE "")
           tag == ItemsTag(open_b, Len(obj), close_b)
       IN  IF obj = <<>>
           THEN Return(t, Val(PySlice(IF frozen THEN "frozenset()" ELSE "set()",
                                      f.budget)))
           ELSE IF f.budget <= Len(tag) THEN Return(t, Val(PySlice(tag, f.budget)))
           ELSE Goto(t, [f EXCEPT !.pc = "loop", !.elems = obj, !.open_b = open_b,
                                  !.close_b = close_b,
                                  !.remaining = f.budget - Len(open_b) - Len(close_b)])
    /\ UNCHANGED <<registry, script, pos, ctx>>

\* core.py:271-280 and, when the loop ends, 285-289
SetLoop(t) ==
    /\ Running(t, "_render_set", "loop")
    /\ LET f == Top(t)
           n == Len(f.elems)
           sep_cost == SepCost(f.parts)
           available == Available(f.remaining, sep_cost, n - f.idx)
       IN  IF f.idx < n /\ available >= MIN_CHILD_BUDGET
           THEN Call(t, [f EXCEPT !.pc = "item_ret", !.sep_cost = sep_cost,
                                  !.available = available],
                     ChildFrame(f.elems[f.idx + 1], available))
           ELSE Return(t, Val(f.open_b \o Join(WithMore(f.parts, n - f.idx))
                              \o f.close_b))
    /\ UNCHANGED <<registry, script, pos, ctx>>

\* core.py:281-283
SetItemRet(t) ==
    /\ Running(t, "_render_set", "item_ret")
    /\ ret[t].kind = "val"
    /\ LET f == Top(t)
           part == ret[t].text
       IN  Goto(t, [f EXCEPT !.pc = "loop", !.parts = Append(@, part),
                             !.remaining = @ - (Len(part) + f.sep_cost),
                             !.idx = @ + 1])
    /\ UNCHANGED <<registry, script, pos, ctx>>

\* ---- _render_defaultdict, _render_counter, _render_deque, core.py:385-438
\* Counter.most_common(): by count, largest first, equal counts in
\* insertion order
RECURSIVE MostCommon(_)
MostCommon(pairs) ==
    IF pairs = <<>> THEN <<>>
    ELSE LET count(i) == Heap[pairs[i][2]].n
             best == CHOOSE i \in 1..Len(pairs) :
                        /\ \A j \in 1..Len(pairs) : count(j) <= count(i)
                        /\ \A j \in 1..(i - 1) : count(j) < count(i)
         IN  <<pairs[best]>> \o
             MostCommon(SubSeq(pairs, 1, best - 1) \o SubSeq(pairs, best + 1, Len(pairs)))

\* The shared shape of the three: the shell when the budget is too small
\* for anything inside, else the inner renderer between prefix and suffix.
WrapperStart(t, f, prefix, suffix, shell, inner) ==
    LET inner_budget == f.budget - Len(prefix) - Len(suffix)
    IN  IF f.budget <= Len(shell) \/ inner_budget < MIN_BUDGET
        THEN Return(t, Val(PySlice(shell, f.budget)))
        ELSE Call(t, [f EXCEPT !.pc = "wrap_ret", !.open_b = prefix,
                               !.close_b = suffix],
                  [inner EXCEPT !.budget = inner_budget])

DefaultdictStart(t) ==
    /\ Running(t, "_render_defaultdict", "start")
    /\ LET f == Top(t)
           factory_name == Heap[f.obj].s
       IN  WrapperStart(t, f, "defaultdict(" \o factory_name \o ", ", ")",
                        "defaultdict(" \o factory_name \o ")",
                        [NewFrame("_render_dict", f.obj, 0) EXCEPT
                            !.elems = Heap[f.obj].pairs])
    /\ UNCHANGED <<registry, script, pos, ctx>>

CounterStart(t) ==
    /\ Running(t, "_render_counter", "start")
    /\ LET f == Top(t)
       IN  IF Heap[f.obj].pairs = <<>>
           THEN Return(t, Val(PySlice("Counter()", f.budget)))
           ELSE WrapperStart(t, f, "Counter(", ")", "Counter()",
                             [NewFrame("_render_dict", f.obj, 0) EXCEPT
                                 !.elems = MostCommon(Heap[f.obj].pairs)])
    /\ UNCHANGED <<registry, script, pos, ctx>>

DequeStart(t) ==
    /\ Running(t, "_render_deque", "start")
    /\ LET f == Top(t)
       IN  IF Heap[f.obj].items = <<>>
           THEN Return(t, Val(PySlice("deque()", f.budget)))
           ELSE WrapperStart(t, f, "deque(", ")", "deque()",
                             NewFrame("_render_sequence", f.obj, 0))
    /\ UNCHANGED <<registry, script, pos, ctx>>

\* core.py:400, 419, 438
WrapperRet(t) ==
    /\ stack[t] # <<>>
    /\ Top(t).fn \in {"_render_defaultdict", "_render_counter", "_render_deque"}
    /\ Top(t).pc = "wrap_ret"
    /\ ret[t].kind = "val"
    /\ Return(t, Val(Top(t).open_b \o ret[t].text \o Top(t).close_b))
    /\ UNCHANGED <<registry, script, pos, ctx>>

\* ---- render_attrs, core.py:303-375; elems is attrs.items()
\* len(val) of a sized value
LenOf(id) ==
    LET o == Heap[id]
    IN  IF o.type \in {"str", "bytes"} THEN Len(o.s)
        ELSE IF IsInstance(o.type, "dict") THEN Len(o.pairs)
        ELSE Len(o.items)

\* core.py:292-300
_type_stub(val) ==
    LET type_name == TypeOf(val)
    IN  IF Types[type_name].haslen = "yes"
        THEN "<" \o type_name \o "(" \o Str(LenOf(val)) \o ")>"
        ELSE "<" \o type_name \o ">"

AttrsFrame(obj, attrs, type_name, budget) ==
    [NewFrame("render_attrs", obj, budget) EXCEPT
        !.elems = attrs, !.type_name = type_name]

AttrsStart(t) ==
    /\ Running(t, "render_attrs", "start")
    /\ LET f == Top(t)
           tag == "<" \o f.type_name \o ">"
           shell == f.type_name \o "()"
       IN  IF f.elems = <<>> \/ f.budget <= Len(shell)
           THEN Return(t, Val(PySlice(tag, f.budget)))
           ELSE Goto(t, [f EXCEPT !.pc = "full",
                                  !.remaining = f.budget - Len(f.type_name) - 2,
                                  !.even = (PolicyGet(ctx[CtxKey(t)]) = "even")])
    /\ UNCHANGED <<registry, script, pos, ctx>>

\* a render_attrs without phase 2
StubPhaseSkipped(attr_items, idx, parts, remaining) == [parts |-> parts, idx |-> idx]

\* phase 2, core.py:352-365: the stubs that fit, as parts, idx, remaining
RECURSIVE StubPhase(_, _, _, _)
StubPhase(attr_items, idx, parts, remaining) ==
    IF idx >= Len(attr_items) THEN [parts |-> parts, idx |-> idx]
    ELSE LET part == attr_items[idx + 1][1] \o "=" \o _type_stub(attr_items[idx + 1][2])
             sep_cost == SepCost(parts)
             rest == Len(attr_items) - idx - 1
             reserve == IF rest > 0 THEN ReserveLen(rest) ELSE 0
         IN  IF Len(part) + sep_cost + reserve > remaining
             THEN [parts |-> parts, idx |-> idx]
             ELSE StubPhase(attr_items, idx + 1, Append(parts, part),
                            remaining - (Len(part) + sep_cost))

\* a render_attrs without the final fit check
AttrsResultUnchecked(f) ==
    LET st == StubPhase(f.elems, f.idx, f.parts, f.remaining)
    IN  f.type_name \o "(" \o Join(WithMore(st.parts, Len(f.elems) - st.idx)) \o ")"

\* phases 2 and 3 and the final fit check, core.py:351-375
AttrsResult(f) ==
    LET st == StubPhase(f.elems, f.idx, f.parts, f.remaining)
        result == f.type_name \o "("
                  \o Join(WithMore(st.parts, Len(f.elems) - st.idx)) \o ")"
    IN  IF Len(result) > f.budget
        THEN PySlice("<" \o f.type_name \o ">", f.budget)
        ELSE result

\* an equal share that forgets the separators between the attributes
AttrAvailableNoSeparators(f, sep_cost, rest) ==
    LET available == Available(f.remaining, sep_cost, rest)
        per_attr == f.remaining \div rest
    IN  IF f.even /\ rest > 1 THEN Min(available, per_attr) ELSE available

\* core.py:328-337
AttrAvailable(f, sep_cost, rest) ==
    LET available == Available(f.remaining, sep_cost, rest)
        per_attr == (f.remaining - (rest - 1) * 2) \div rest
    IN  IF f.even /\ rest > 1 THEN Min(available, per_attr) ELSE available

\* One pass of phase 1, core.py:327-345
AttrsFull(t) ==
    /\ Running(t, "render_attrs", "full")
    /\ LET f == Top(t)
           n == Len(f.elems)
           sep_cost == SepCost(f.parts)
           available == AttrAvailable(f, sep_cost, n - f.idx)
           prefix == f.elems[f.idx + 1][1] \o "="
           val_budget == available - Len(prefix)
       IN  IF f.idx < n /\ val_budget >= MIN_CHILD_BUDGET
           THEN Call(t, [f EXCEPT !.pc = "full_ret", !.sep_cost = sep_cost,
                                  !.available = available, !.key_r = prefix],
                     ChildFrame(f.elems[f.idx + 1][2], val_budget))
           ELSE Return(t, Val(AttrsResult(f)))
    /\ UNCHANGED <<registry, script, pos, ctx>>

\* core.py:346-349
AttrsFullRet(t) ==
    /\ Running(t, "render_attrs", "full_ret")
    /\ ret[t].kind = "val"
    /\ LET f == Top(t)
           part == f.key_r \o ret[t].text
       IN  Goto(t, [f EXCEPT !.pc = "full", !.parts = Append(@, part),
                             !.remaining = @ - (Len(part) + f.sep_cost),
                             !.idx = @ + 1])
    /\ UNCHANGED <<registry, script, pos, ctx>>

\* ---- _render_namedtuple, core.py:378-382
RECURSIVE Zip(_, _)
Zip(a, b) ==
    IF a = <<>> \/ b = <<>> THEN <<>>
    ELSE << <<Head(a), Head(b)>> >> \o Zip(Tail(a), Tail(b))

NamedtupleStart(t) ==
    /\ Running(t, "_render_namedtuple", "start")
    /\ LET f == Top(t)
           type_name == TypeOf(f.obj)
           attrs == Zip(Types[type_name].fields, Heap[f.obj].items)
       IN  Goto(t, AttrsFrame(f.obj, attrs, type_name, f.budget))
    /\ UNCHANGED <<registry, script, pos, ctx>>

\* ---- _render_object, core.py:441-473
\* object.__repr__ of a class without a __repr__ of its own
DefaultRepr(ty) == "<mod." \o ty \o " object at 0x7f3a5c0>"

\* core.py:451
IsDefaultRepr(r) == StartsWith(r, "<") /\ Contains(r, " object at 0x")

RECURSIVE Public(_)
Public(attrs) ==
    IF attrs = <<>> THEN <<>>
    ELSE (IF StartsWith(Head(attrs)[1], "_") THEN <<>> ELSE <<Head(attrs)>>)
         \o Public(Tail(attrs))

\* core.py:458-471
DiscoverAttrs(obj) ==
    LET src == Types[TypeOf(obj)].attrsrc
    IN  IF src = "dataclass" THEN Heap[obj].attrs
        ELSE IF src \in {"dict", "slots"} THEN Public(Heap[obj].attrs)
        ELSE <<>>

\* a _render_object whose repr(obj) has no try around it
ObjectStartUnguarded(t) ==
    /\ Running(t, "_render_object", "start")
    /\ LET f == Top(t)
           ty == Types[TypeOf(f.obj)]
           r == IF ty.repr = "default" THEN DefaultRepr(TypeOf(f.obj)) ELSE Heap[f.obj].s
       IN  IF ~ty.dataclass /\ ty.repr = "raises"
           THEN Return(t, Exc("ValueError"))
           ELSE IF ~ty.dataclass /\ ~IsDefaultRepr(r) /\ Len(r) <= f.budget
           THEN Return(t, Val(r))
           ELSE Goto(t, AttrsFrame(f.obj, DiscoverAttrs(f.obj), TypeOf(f.obj), f.budget))
    /\ UNCHANGED <<registry, script, pos, ctx>>

ObjectStart(t) ==
    /\ Running(t, "_render_object", "start")
    /\ LET f == Top(t)
           ty == Types[TypeOf(f.obj)]
           r == IF ty.repr = "default" THEN DefaultRepr(TypeOf(f.obj)) ELSE Heap[f.obj].s
       IN  IF ~ty.dataclass /\ ty.repr # "raises" /\ ~IsDefaultRepr(r)
              /\ Len(r) <= f.budget
           THEN Return(t, Val(r))
           ELSE Goto(t, AttrsFrame(f.obj, DiscoverAttrs(f.obj), TypeOf(f.obj), f.budget))
    /\ UNCHANGED <<registry, script, pos, ctx>>

\* ------------------------------------------------------------ formatters
\* The functions user code supplies: a __budget_repr__ method or a
\* registered renderer.  prog names what the function does.
RECURSIVE Repeat(_, _)
Repeat(c, n) == IF n <= 0 THEN "" ELSE c \o Repeat(c, n - 1)

\* ext_numpy.py:15-17: the shape of a one-dimensional array, the header
NdShape(obj) == Str(Len(Heap[obj].items))

\* str(obj.dtype) of the arrays of the heap
NdDtype(obj) == "int64"

NdHeader(obj) == "ndarray(" \o NdShape(obj) \o ", " \o NdDtype(obj)

\* ext_pandas.py:23-25: rows, cols = obj.shape; the header
DfShape(obj) == Str(Heap[obj].n) \o "x" \o Str(Len(Heap[obj].items))

DfHeader(obj) == "DataFrame(" \o DfShape(obj)

\* the header of the formatter running in frame f
PeekHeader(f) == IF f.prog = "ndarray" THEN NdHeader(f.obj) ELSE DfHeader(f.obj)

\* ext_numpy.py:33
PEEK_LIMIT == 20

\* ext_numpy.py:46-50, ext_pandas.py:49-53
NdResult(f) ==
    PeekHeader(f) \o ", ["
        \o Join(WithMore(f.parts, Len(f.elems) - Len(f.parts))) \o "])"

FormatterStart(t) ==
    /\ Running(t, "formatter", "start")
    /\ LET f == Top(t)
           attrs == Heap[f.obj].attrs
       IN  CASE f.prog = "proto" ->
                  \* tests/test_core.py:428-429
                  Return(t, Val("proto(" \o Str(f.budget) \o ")")) /\ UNCHANGED ctx
             [] f.prog = "custom" ->
                  \* tests/test_core.py:421-422
                  Return(t, Val(PySlice("custom", f.budget))) /\ UNCHANGED ctx
             [] f.prog = "pad" ->
                  \* a formatter that ignores its budget
                  Return(t, Val(Repeat("x", f.budget + MaxOvershoot))) /\ UNCHANGED ctx
             [] f.prog = "raise" ->
                  Return(t, Exc("ValueError")) /\ UNCHANGED ctx
             [] f.prog = "attrs" ->
                  \* ext_pydantic.py:14-17: return render_attrs(...)
                  Goto(t, AttrsFrame(f.obj, attrs, TypeOf(f.obj), f.budget))
                  /\ UNCHANGED ctx
             [] f.prog = "ndarray" ->
                  \* ext_numpy.py:15-31
                  (LET header == NdHeader(f.obj)
                       remaining == f.budget - Len(header) - 2
                   IN  IF f.budget <= Len(header) + 1
                       THEN Return(t, Val(PySlice("ndarray(" \o NdShape(f.obj) \o ")",
                                                  f.budget)))
                       ELSE IF remaining < 5
                       THEN Return(t, Val(PySlice(header \o ")", f.budget)))
                       ELSE Goto(t, [f EXCEPT !.pc = "peek", !.remaining = remaining,
                                              !.elems = Heap[f.obj].items]))
                  /\ UNCHANGED ctx
             [] f.prog = "dataframe" ->
                  \* ext_pandas.py:15-35: repr(obj) in a try, then the header
                  (LET ty == Types[TypeOf(f.obj)]
                       r == Heap[f.obj].s
                       header == DfHeader(f.obj)
                       remaining == f.budget - Len(header) - 2
                   IN  IF ty.repr # "raises" /\ Len(r) <= f.budget
                       THEN Return(t, Val(r))
                       ELSE IF f.budget <= Len(header) + 1
                       THEN Return(t, Val(PySlice("DataFrame(" \o DfShape(f.obj) \o ")",
                                                  f.budget)))
                       ELSE IF remaining < 5
                       THEN Return(t, Val(PySlice(header \o ")", f.budget)))
                       ELSE Goto(t, [f EXCEPT !.pc = "peek", !.remaining = remaining,
                                              !.elems = Heap[f.obj].items,
                                              !.used = 2]))
                  /\ UNCHANGED ctx
             [] f.prog = "child" ->
                  \* "W(" + render_child(self.item, budget - 3) + ")"
                  Call(t, [f EXCEPT !.pc = "child_ret"],
                       ChildFrame(attrs[1][2], f.budget - 3)) /\ UNCHANGED ctx
             [] f.prog = "trychild" ->
                  \* try: a = render_child(self.a, budget // 2)
                  Call(t, [f EXCEPT !.pc = "try_ret"],
                       ChildFrame(attrs[1][2], f.budget \div 2)) /\ UNCHANGED ctx
             [] f.prog = "nested" ->
                  \* a = render(self.a, budget, "even")
                  /\ RenderEntry(t, Append(Below(t), [f EXCEPT !.pc = "nested_ret"]),
                                 attrs[1][2], f.budget, "even")
                  /\ UNCHANGED results
    /\ UNCHANGED <<registry, script, pos>>

FormatterChildRet(t) ==
    /\ Running(t, "formatter", "child_ret")
    /\ ret[t].kind = "val"
    /\ Return(t, Val("W(" \o ret[t].text \o ")"))
    /\ UNCHANGED <<registry, script, pos, ctx>>

\* except Exception: a = "?"; then b = render_child(self.b, budget // 2)
FormatterTryRet(t) ==
    /\ Running(t, "formatter", "try_ret")
    /\ ret[t].kind # "none"
    /\ LET f == Top(t)
           a == IF ret[t].kind = "exc" THEN "?" ELSE ret[t].text
       IN  Call(t, [f EXCEPT !.pc = "second_ret", !.key_r = a],
                ChildFrame(Heap[f.obj].attrs[2][2], f.budget \div 2))
    /\ UNCHANGED <<registry, script, pos, ctx>>

\* then b = render_child(self.b, budget // 2)
FormatterNestedRet(t) ==
    /\ Running(t, "formatter", "nested_ret")
    /\ ret[t].kind = "val"
    /\ LET f == Top(t)
       IN  Call(t, [f EXCEPT !.pc = "second_ret", !.key_r = ret[t].text],
                ChildFrame(Heap[f.obj].attrs[2][2], f.budget \div 2))
    /\ UNCHANGED <<registry, script, pos, ctx>>

\* return a + b
FormatterSecondRet(t) ==
    /\ Running(t, "formatter", "second_ret")
    /\ ret[t].kind = "val"
    /\ Return(t, Val(Top(t).key_r \o ret[t].text))
    /\ UNCHANGED <<registry, script, pos, ctx>>

\* ext_numpy.py:34-40, ext_pandas.py:37-43: one pass of the loop up to the
\* render_child call; the array loop stops after PEEK_LIMIT values
NdarrayPeek(t) ==
    /\ Running(t, "formatter", "peek")
    /\ LET f == Top(t)
           n == Len(f.elems)
           i == f.idx
           sep == SepCost(f.parts)
           omitted == n - i - 1
           reserve == IF omitted > 0 THEN ReserveLen(omitted) ELSE 0
           avail == f.remaining - f.used - sep - reserve
           limit == IF f.prog = "ndarray" THEN Min(n, PEEK_LIMIT) ELSE n
       IN  IF i < limit
           THEN Call(t, [f EXCEPT !.pc = "peek_ret", !.available = avail,
                                  !.sep_cost = sep],
                     ChildFrame(f.elems[i + 1], avail))
           ELSE Return(t, Val(NdResult(f)))
    /\ UNCHANGED <<registry, script, pos, ctx>>

\* ext_numpy.py:41-44 and ext_pandas.py:44-47, then the return after the
\* break; a value needs 5 characters, a column name 3
NdarrayPeekRet(t) ==
    /\ Running(t, "formatter", "peek_ret")
    /\ ret[t].kind = "val"
    /\ LET f == Top(t)
           r == ret[t].text
           least == IF f.prog = "ndarray" THEN 5 ELSE 3
       IN  IF Len(r) > f.available \/ f.available < least
           THEN Return(t, Val(NdResult(f)))
           ELSE Goto(t, [f EXCEPT !.pc = "peek", !.parts = Append(@, r),
                                  !.used = @ + Len(r) + f.sep_cost,
                                  !.idx = @ + 1])
    /\ UNCHANGED <<registry, script, pos, ctx>>

\* ------------------------------------------------------------ scripts
Budgets == (0..MaxBudget) \cup {TestBudget}

Policies == {"greedy", "even", "omitted"}

RenderOp(obj, budget, policy) ==
    [op |-> "render", cls |-> "", fn |-> "", obj |-> obj, budget |-> budget,
     policy |-> policy]

RenderChildOp(obj, budget) ==
    [op |-> "render_child", cls |-> "", fn |-> "", obj |-> obj, budget |-> budget,
     policy |-> ""]

RegisterOp(cls, fn) ==
    [op |-> "register", cls |-> cls, fn |-> fn, obj |-> "", budget |-> 0,
     policy |-> ""]

\* the cyclic structures of tests/test_core.py:305-336 and values whose
\* rendering raises
CycleRoots == {"selfList", "selfDict", "node", "mutA"}

RaisingRoots == {"raiser", "holds"}

\* the classes client code registers renderers for, and the renderers
Registrations ==
    {RegisterOp(c, g) : c \in {"MyType", "MidType", "WithProtocol"},
                        g \in {"custom", "attrs"}}
    \cup {RegisterOp("object", "pad"), RegisterOp("int", "custom")}

RegistryRoots == {"my", "mid", "sub", "proto", "subproto", "i42", "node"}

\* budgets of the calls that follow a registration or another call
MaxFollowBudget == 12

FollowBudgets == (0..MaxFollowBudget) \cup {TestBudget}

\* One render of any value at any budget under any policy; a render after
\* one or two registrations; two renders in a row; one record under both
\* policies; render_child with no render around it, alone or after a
\* render; a render of an array or a DataFrame once ext_numpy or
\* ext_pandas has registered its renderer.
Scripts ==
    {<<RenderOp(o, b, p)>> : o \in Ids, b \in Budgets, p \in Policies}
    \cup {<<r, RenderOp(o, b, "omitted")>> :
             r \in Registrations, o \in RegistryRoots, b \in FollowBudgets}
    \cup {<<r1, r2, RenderOp(o, TestBudget, "omitted")>> :
             r1 \in Registrations, r2 \in Registrations, o \in RegistryRoots}
    \cup {<<RenderOp(o1, TestBudget, p), RenderOp(o2, b, "greedy")>> :
             o1 \in CycleRoots \cup RaisingRoots, p \in {"greedy", "even"},
             o2 \in CycleRoots \cup {"outer"}, b \in FollowBudgets}
    \cup {<<RenderOp("wide", b, "greedy"), RenderOp("wide", b, "even")>> :
             b \in Budgets}
    \cup {<<RenderChildOp(o, b)>> : o \in Ids, b \in FollowBudgets}
    \cup {<<RegisterOp("ndarray", "ndarray"), RenderOp(o, b, "omitted")>> :
             o \in {"vec", "solo"}, b \in Budgets}
    \cup {<<RegisterOp("DataFrame", "dataframe"), RenderOp(o, b, "omitted")>> :
             o \in {"frame", "broken"}, b \in Budgets}
    \cup {<<RenderOp(o1, TestBudget, "even"), RenderChildOp(o2, b)>> :
             o1 \in CycleRoots \cup RaisingRoots, o2 \in {"selfList", "outer", "i42"},
             b \in FollowBudgets}

\* what two concurrent threads run
ConcScripts ==
    {<<RenderOp(o, TestBudget, p)>> :
        o \in {"selfList", "mutA", "twice"}, p \in {"greedy", "even"}}
    \cup {<<RenderOp("outer", TestBudget, "even")>>}

\* ------------------------------------------------------------ specification
InitState ==
    /\ registry = <<>>
    /\ pos = [t \in Threads |-> 0]
    /\ stack = [t \in Threads |-> <<>>]
    /\ ret = [t \in Threads |-> NoRet]
    /\ ctx = [k \in Threads |-> EmptyCtx]
    /\ results = [t \in Threads |-> <<>>]

\* one thread runs a script
Init ==
    /\ InitState
    /\ \E sc \in Scripts : script = [t \in Threads |-> IF t = 1 THEN sc ELSE <<>>]

Step(t) ==
    \/ CallRegister(t)
    \/ CallRender(t)
    \/ CallRenderChild(t)
    \/ RenderReturn(t)
    \/ RenderChildEnter(t)
    \/ RenderChildExit(t)
    \/ Propagate(t)
    \/ SeqStart(t)
    \/ SeqHead(t)
    \/ SeqChildRet(t)
    \/ DictStart(t)
    \/ DictLoop(t)
    \/ DictKeyRet(t)
    \/ DictValRet(t)
    \/ SetStart(t)
    \/ SetLoop(t)
    \/ SetItemRet(t)
    \/ DefaultdictStart(t)
    \/ CounterStart(t)
    \/ DequeStart(t)
    \/ WrapperRet(t)
    \/ NamedtupleStart(t)
    \/ ObjectStart(t)
    \/ AttrsStart(t)
    \/ AttrsFull(t)
    \/ AttrsFullRet(t)
    \/ FormatterStart(t)
    \/ FormatterChildRet(t)
    \/ FormatterTryRet(t)
    \/ FormatterNestedRet(t)
    \/ FormatterSecondRet(t)
    \/ NdarrayPeek(t)
    \/ NdarrayPeekRet(t)

Next == \E t \in Threads : Step(t)

Spec == Init /\ [][Next]_vars

\* ------------------------------------------------------------ other runs
\* a few scripts that between them run every function of the code
CoverScripts ==
    {<<RenderOp(o, TestBudget, "greedy")>> :
        o \in {"range", "dict3", "set3", "dd", "counter", "deque", "point",
               "holds", "wrapList", "catcher", "nester", "mixed"}}
    \cup {<<RegisterOp("MyType", "custom"), RenderOp("sub", TestBudget, "omitted")>>,
          <<RenderChildOp("i42", TestBudget)>>,
          <<RegisterOp("ndarray", "ndarray"), RenderOp("vec", TestBudget, "omitted")>>}

\* the cyclic structures at every budget under both policies
CycleScripts ==
    {<<RenderOp(o, b, p)>> : o \in CycleRoots, b \in Budgets, p \in {"greedy", "even"}}

CycleInit ==
    /\ InitState
    /\ \E sc \in CycleScripts \cup CoverScripts :
          script = [t \in Threads |-> IF t = 1 THEN sc ELSE <<>>]

\* A thread that can take a step takes one: the interpreter runs the code.
CycleSpec == CycleInit /\ [][Next]_vars /\ WF_vars(Next)

\* two threads, each with its own script, every interleaving
ConcInit ==
    /\ InitState
    /\ \E s1 \in ConcScripts \cup CoverScripts, s2 \in ConcScripts :
          script = [t \in Threads |-> IF t = 1 THEN s1 ELSE s2]

ConcSpec == ConcInit /\ [][Next]_vars

\* one client that renders each long sequence at every budget in turn
SweepRoots == <<"shared", "range", "longs", "longt", "mixed">>

SweepBudget(k) == IF k <= MaxBudget THEN k ELSE TestBudget

SweepScript ==
    [c \in 1..(Len(SweepRoots) * (MaxBudget + 2)) |->
        RenderOp(SweepRoots[((c - 1) \div (MaxBudget + 2)) + 1],
                 SweepBudget((c - 1) % (MaxBudget + 2)), "greedy")]

SweepInit ==
    /\ InitState
    /\ \E sc \in {SweepScript, <<RenderOp("outer", TestBudget, "greedy")>>}
                   \cup CoverScripts :
          script = [t \in Threads |-> IF t = 1 THEN sc ELSE <<>>]

SweepSpec == SweepInit /\ [][Next]_vars /\ WF_vars(Next)

\* the values reachable from id through at most depth containers or
\* attribute bags
RECURSIVE Reachable(_, _)
Reachable(ids, depth) ==
    IF depth = 0 THEN ids
    ELSE Reachable(ids \cup UNION {Range(Heap[x].items)
                                      \cup {Heap[x].pairs[k][1] : k \in DOMAIN Heap[x].pairs}
                                      \cup {Heap[x].pairs[k][2] : k \in DOMAIN Heap[x].pairs}
                                      \cup {Heap[x].attrs[k][2] : k \in DOMAIN Heap[x].attrs}
                                    : x \in ids},
                   depth - 1)

MaxDepth == 4

\* the values with no attribute bag at any depth: scalars, text, lists,
\* tuples, dicts and sets only
BagFreeRoots ==
    {id \in Ids :
        \A x \in Reachable({id}, MaxDepth) :
            TypeOf(x) \in {"NoneType", "bool", "int", "float", "str", "bytes",
                           "list", "tuple", "dict", "set", "frozenset"}}

\* one value at one budget under both policies
PolicyScripts ==
    {<<RenderOp(o, b, "greedy"), RenderOp(o, b, "even")>> :
        o \in BagFreeRoots \cup {"wide", "outer", "thing"}, b \in Budgets}

PolicyInit ==
    /\ InitState
    /\ \E sc \in PolicyScripts \cup CoverScripts :
          script = [t \in Threads |-> IF t = 1 THEN sc ELSE <<>>]

PolicySpec == PolicyInit /\ [][Next]_vars

\* every thread has made all its calls and every call has returned
Done == \A t \in Threads : pos[t] = Len(script[t]) /\ stack[t] = <<>>

\* ------------------------------------------------------------ observations
\* the calls of thread t that have returned to client code, by index
Finished(t) == 1..Len(results[t])

\* the index of the innermost render frame of a stack, 0 when there is none
InnermostRender(stk) ==
    LET rs == {i \in 1..Len(stk) : stk[i].fn = "render"}
    IN  IF rs = {} THEN 0 ELSE CHOOSE i \in rs : \A j \in rs : j <= i

\* the identities of the non-scalar values whose render_child call, made
\* with a budget of at least MIN_BUDGET inside the innermost render, has
\* entered and not yet returned
ActiveIds(stk) ==
    {stk[i].obj : i \in {j \in (InnermostRender(stk) + 1)..Len(stk) :
                            /\ stk[j].fn = "render_child"
                            /\ stk[j].pc = "exit"
                            /\ stk[j].budget >= MIN_BUDGET
                            /\ ~IsExempt(TypeOf(stk[j].obj))}}

\* the call of thread t whose result is results[t][i]
CallOf(t, i) == script[t][i]

\* ------------------------------------------------------------ claims
\* C1: the string render(value, budget, policy) returns is at most budget
\* characters long, for every value, budget >= 0 and policy.
C1_BudgetRespected ==
    \A t \in Threads : \A i \in Finished(t) :
        (CallOf(t, i).op = "render" /\ results[t][i].kind = "val")
            => Len(results[t][i].text) <= CallOf(t, i).budget

\* C2: rendering a self-referencing list, dict or object or two mutually
\* referencing lists terminates at every budget within the budget; a
\* back-reference reached by render_child with a budget >= 5 comes back as
\* the marker and is not recursed into; at budget 100 the output contains
\* the marker.
C2_NoReentry ==
    \A t \in Threads : \A i, j \in 1..Len(stack[t]) :
        (/\ i < j
         /\ stack[t][i].fn = "render_child" /\ stack[t][i].pc = "exit"
         /\ stack[t][j].fn = "render_child" /\ stack[t][j].pc = "exit"
         /\ ~IsExempt(TypeOf(stack[t][i].obj))
         /\ stack[t][i].obj = stack[t][j].obj)
            => \E k \in (i + 1)..(j - 1) : stack[t][k].fn = "render"

C2_CyclicResults ==
    \A t \in Threads : \A i \in Finished(t) :
        (CallOf(t, i).op = "render" /\ CallOf(t, i).obj \in CycleRoots)
            => /\ results[t][i].kind = "val"
               /\ Len(results[t][i].text) <= CallOf(t, i).budget
               /\ CallOf(t, i).budget = TestBudget
                     => Contains(results[t][i].text, CIRCULAR)

C2_MarkerStep ==
    \A t \in Threads :
        (/\ Running(t, "render_child", "start")
         /\ Top(t).budget >= MIN_BUDGET
         /\ Top(t).obj \in ActiveIds(Below(t))
         /\ stack'[t] # stack[t])
            => /\ stack'[t] = Below(t)
               /\ ret'[t] = Val(CIRCULAR)

C2_CycleTermination ==
    /\ [](C2_NoReentry /\ C2_CyclicResults)
    /\ [][C2_MarkerStep]_vars
    /\ <>Done

C2_Witness ==
    \E i \in Finished(1) :
        /\ CallOf(1, i).obj \in CycleRoots
        /\ CallOf(1, i).budget < TestBudget
        /\ Contains(results[1][i].text, CIRCULAR)

PassedPolicy(t, stk, r) ==
    IF \E j \in 1..(r - 1) : stk[j].fn = "render" THEN "even"
    ELSE IF script[t][pos[t]].policy = "omitted" THEN "greedy"
    ELSE script[t][pos[t]].policy

\* C4: when render returns, by a value or by an exception, guard and policy
\* are what they were before the call: unset after an outermost call, the
\* enclosing call's guard and policy after a render made inside a
\* formatter.  Two renders of a cyclic structure in a row give the same
\* text, and a cycle of the enclosing call is still found after a nested
\* render has returned.
C4_TeardownStep ==
    \A t \in Threads :
        (Running(t, "render", "wait") /\ stack'[t] = Below(t))
            => LET r == InnermostRender(Below(t))
                   c == ctx'[CtxKey(t)]
               IN  IF r = 0 THEN c = EmptyCtx
                   ELSE /\ c.has_seen
                        /\ c.seen = ActiveIds(Below(t))
                        /\ c.policy = PassedPolicy(t, Below(t), r)

C4_Idle ==
    \A t \in Threads :
        /\ InnermostRender(stack[t]) = 0 => ctx[CtxKey(t)] = EmptyCtx
        /\ \A i, j \in Finished(t) :
              (/\ i < j
               /\ CallOf(t, i).op = "render" /\ CallOf(t, j) = CallOf(t, i)
               /\ CallOf(t, i).obj \in CycleRoots)
                  => results[t][j] = results[t][i]
        /\ \A i \in Finished(t) :
              (/\ CallOf(t, i).op = "render" /\ CallOf(t, i).obj = "nester"
               /\ CallOf(t, i).budget = TestBudget)
                  => EndsWith(results[t][i].text, CIRCULAR)

C4_SessionTeardown == []C4_Idle /\ [][C4_TeardownStep]_vars

C4_Witness ==
    \E t \in Threads :
        /\ Running(t, "formatter", "nested_ret")
        /\ ret[t].kind = "val"
        /\ ctx[CtxKey(t)].seen = {"nester"}
        /\ ctx[CtxKey(t)].policy = "greedy"

\* C5: render_child called with no render around it raises RuntimeError
\* for every value and every budget and never returns text.
C5_UsageError ==
    \A t \in Threads : \A i \in Finished(t) :
        CallOf(t, i).op = "render_child" => results[t][i] = Exc("RuntimeError")

\* C6: two render calls running in two threads, under every interleaving,
\* each use a guard and a policy of their own: a thread's guard holds the
\* identities of its own active render_child calls and no others, its
\* policy is the one its own call was given, and the text it gets is the
\* text the same call gives the other thread.
C6_Isolation ==
    /\ \A t \in Threads :
          LET stk == stack[t]
              r == InnermostRender(stk)
          IN  /\ r > 0 => /\ ctx[CtxKey(t)].seen = ActiveIds(stk)
                          /\ ctx[CtxKey(t)].policy = PassedPolicy(t, stk, r)
              /\ \A i \in 1..Len(stk) :
                    (stk[i].fn = "render_attrs" /\ stk[i].pc # "start")
                        => stk[i].even =
                              (PassedPolicy(t, stk, InnermostRender(SubSeq(stk, 1, i)))
                                  = "even")
    /\ \A i \in Finished(1) : \A j \in Finished(2) :
          (CallOf(1, i) = CallOf(2, j) /\ CallOf(1, i).op = "render")
              => results[1][i] = results[2][j]
    /\ \A t \in Threads : \A i \in Finished(t) :
          /\ (CallOf(t, i).obj = "twice" /\ CallOf(t, i).op = "render")
                => ~Contains(results[t][i].text, CIRCULAR)
          /\ (CallOf(t, i).obj \in CycleRoots /\ CallOf(t, i).op = "render"
              /\ CallOf(t, i).budget = TestBudget)
                => Contains(results[t][i].text, CIRCULAR)

C6_Witness ==
    /\ InnermostRender(stack[1]) > 0
    /\ InnermostRender(stack[2]) > 0
    /\ ctx[CtxKey(1)].policy # ctx[CtxKey(2)].policy
    /\ "selfList" \in ctx[CtxKey(1)].seen
    /\ ctx[CtxKey(2)].seen # {}
    /\ "selfList" \notin ctx[CtxKey(2)].seen

\* C7: for a budget >= 5 the dispatcher returns the text of whichever
\* branch ran (hook, registered renderer, generic fallback) cut to budget
\* characters.
C7_FinalClamp ==
    \A t \in Threads :
        (/\ Running(t, "render_child", "exit")
         /\ Top(t).budget >= MIN_BUDGET
         /\ ret[t].kind = "val")
            => Clamp(Top(t).branch, ret[t].text, Top(t).budget)
                  = PySlice(ret[t].text, Top(t).budget)

\* whether a class of the __mro__ of ty defines the protocol method, has a
\* registered renderer
DefinesHook(ty) == \E c \in Range(Types[ty].mro) : Types[c].hook # "none"

HasRegistered(ty) == \E c \in Range(Types[ty].mro) : c \in DOMAIN registry

\* C8: for a budget >= 5 a value whose type defines __budget_repr__ is
\* rendered by that method, called with exactly render_child's budget, its
\* text cut to the budget, also when a renderer is registered for the
\* type; otherwise a registered renderer is used; the generic fallback
\* runs only when there is neither.
C8_ResolutionPriority ==
    \A t \in Threads :
        /\ \A i \in 1..Len(stack[t]) :
              LET f == stack[t][i]
                  ty == TypeOf(f.obj)
              IN  (f.fn = "render_child" /\ f.pc = "exit")
                     => /\ f.branch = IF DefinesHook(ty) THEN "hook"
                                      ELSE IF HasRegistered(ty) THEN "registry"
                                      ELSE "generic"
                        /\ (i < Len(stack[t]) /\ stack[t][i + 1].fn = "formatter")
                              => /\ DefinesHook(ty) \/ HasRegistered(ty)
                                 /\ stack[t][i + 1].budget = f.budget
                                 /\ stack[t][i + 1].obj = f.obj
                                 /\ DefinesHook(ty) => stack[t][i + 1].prog = HookOf(ty)
                                 /\ ~DefinesHook(ty)
                                       => stack[t][i + 1].prog \in Range(registry)
        /\ \A i \in Finished(t) :
              LET c == CallOf(t, i)
              IN  (c.op = "render" /\ c.budget >= MIN_BUDGET)
                     => /\ c.obj \in {"proto", "subproto"}
                              => results[t][i].text
                                    = PySlice("proto(" \o Str(c.budget) \o ")", c.budget)
                        /\ (c.obj = "my" /\ "MyType" \in DOMAIN registry
                            /\ registry["MyType"] = "custom")
                              => results[t][i].text = PySlice("custom", c.budget)
                        /\ (c.obj = "my" /\ ~HasRegistered("MyType"))
                              => results[t][i].text = PySlice("<MyType>", c.budget)

C8_Witness ==
    \E i \in Finished(1) :
        /\ CallOf(1, i).obj = "proto"
        /\ "WithProtocol" \in DOMAIN registry
        /\ results[1][i].text = "proto(100)"

\* C9: get_renderer(T) is the renderer registered for the first class of
\* T's __mro__ that has one, None when none has; a class's registration
\* replaces its earlier one and leaves the other classes' entries alone.
C9_NearestAncestor ==
    /\ \A cls \in TypeNames :
          LET mro == Types[cls].mro
              regd == {i \in 1..Len(mro) : mro[i] \in DOMAIN registry}
              first == CHOOSE i \in regd : \A j \in regd : i <= j
          IN  get_renderer(registry, cls) =
                 IF regd = {} THEN "none" ELSE registry[mro[first]]
    /\ \A cls \in TypeNames :
          LET regs == {i \in 1..pos[1] : /\ script[1][i].op = "register"
                                         /\ script[1][i].cls = cls}
              last == CHOOSE i \in regs : \A j \in regs : j <= i
          IN  IF regs = {} THEN cls \notin DOMAIN registry
              ELSE cls \in DOMAIN registry /\ registry[cls] = script[1][last].fn
    /\ \A i \in Finished(1) :
          (/\ CallOf(1, i).op = "render" /\ CallOf(1, i).obj = "sub"
           /\ CallOf(1, i).budget = TestBudget
           /\ DOMAIN registry = {"MyType"})
              => results[1][i].text = IF registry["MyType"] = "custom" THEN "custom"
                                      ELSE "SubType(name='hello', _hid=1, inner=Inner(x='xxxxx', y='yyyyy'))"

C9_Witness ==
    /\ DOMAIN registry = {"MyType", "MidType"}
    /\ registry["MyType"] # registry["MidType"]
    /\ \E i \in Finished(1) :
          /\ CallOf(1, i).obj = "sub"
          /\ results[1][i].text = "custom"

\* C10: within one render(value, budget, policy) every render_attrs, at
\* every depth, reads the policy that render was given, "greedy" when the
\* argument is omitted, and the policy does not change during the call.
C10_PolicyPropagation ==
    \A t \in Threads :
        LET stk == stack[t]
        IN  /\ InnermostRender(stk) > 0
                  => ctx[CtxKey(t)].policy = PassedPolicy(t, stk, InnermostRender(stk))
            /\ \A i \in 1..Len(stk) :
                  (stk[i].fn = "render_attrs" /\ stk[i].pc # "start")
                      => LET r == InnermostRender(SubSeq(stk, 1, i))
                         IN  r > 0 /\ stk[i].even = (PassedPolicy(t, stk, r) = "even")

C10_Witness ==
    \E i, j \in 1..Len(stack[1]) :
        /\ i < j
        /\ stack[1][i].fn = "render_attrs" /\ stack[1][i].even
        /\ stack[1][j].fn = "render_attrs" /\ stack[1][j].even
        /\ InnermostRender(stack[1]) = 1

\* how many of the field names a, b, c, d appear, as "name=", in a text
FieldsShown(text) ==
    Cardinality({n \in {"a", "b", "c", "d"} : Contains(text, n \o "=")})

\* C11: for a record of 4 text fields of comparable size and any budget at
\* which it cannot be rendered in full, render under "even" shows at least
\* as many field names as render under "greedy".
C11_EvenShowsMore ==
    \A t \in Threads :
        (/\ Len(results[t]) = 2
         /\ CallOf(t, 1) = RenderOp("wide", CallOf(t, 1).budget, "greedy")
         /\ CallOf(t, 2) = RenderOp("wide", CallOf(t, 1).budget, "even")
         /\ CallOf(t, 1).budget
               < Len("Wide(a='alpha', b='bravo', c='charlie', d='delta')"))
            => FieldsShown(results[t][2].text) >= FieldsShown(results[t][1].text)

\* ---- reading a rendered text back
\* how deep inside brackets the character at position i of text stands
DepthAt(text, i) ==
    Cardinality({j \in 1..(i - 1) : SubSeq(text, j, j) \in {"(", "[", "{"}})
    - Cardinality({j \in 1..(i - 1) : SubSeq(text, j, j) \in {")", "]", "}"}})

\* the positions of the ", " that separate the entries of the outermost
\* bracket of text
TopSeparators(text) ==
    {i \in 1..(Len(text) - 1) : SubSeq(text, i, i + 1) = ", " /\ DepthAt(text, i) = 1}

\* the last entry of the outermost bracket, without the closing bracket
LastEntry(text) ==
    LET seps == TopSeparators(text)
        from == IF seps = {} THEN 2
                ELSE 2 + CHOOSE i \in seps : \A j \in seps : j <= i
    IN  SubSeq(text, from, Len(text) - 1)

\* the renderers that allot a budget to each entry of a collection
Allocators == {"_render_dict", "_render_sequence", "_render_set"}

\* the true number of entries of a list, tuple, set or dict of the heap
EntryCount(id) == Len(Heap[id].items) + Len(Heap[id].pairs)

\* the closing bracket an allocator frame writes
ClosingOf(f) == IF f.fn = "_render_dict" THEN "}" ELSE f.close_b

\* C12: when the text of the dict, sequence or set renderer has a marker
\* "...K more", K plus the number of entries shown is the number of
\* entries of the value; when all entries are shown there is no marker.
C12_ReturnStep ==
    \A t \in Threads :
        (/\ stack[t] # <<>>
         /\ Top(t).fn \in Allocators
         /\ Top(t).pc # "start"
         /\ stack'[t] = Below(t)
         /\ ret'[t].kind = "val")
            => LET f == Top(t)
                   n == Len(f.elems)
                   shown == Len(f.parts)
                   text == ret'[t].text
               IN  /\ shown < n
                        => /\ EndsWith(text, More(n - shown) \o ClosingOf(f))
                           /\ \A k \in 0..n : k # n - shown
                                 => ~EndsWith(text, More(k) \o ClosingOf(f))
                   /\ shown = n
                        => \A k \in 0..n : ~EndsWith(text, ", " \o More(k) \o ClosingOf(f))

C12_Results ==
    \A t \in Threads : \A i \in Finished(t) :
        LET c == CallOf(t, i)
            text == results[t][i].text
            n == EntryCount(c.obj)
            marked == \E k \in 0..n : LastEntry(text) = More(k)
            shown == Cardinality(TopSeparators(text)) + (IF marked THEN 0 ELSE 1)
        IN  (/\ c.op = "render"
             /\ TypeOf(c.obj) \in {"list", "tuple", "set", "dict"}
             /\ results[t][i].kind = "val"
             /\ n > 0
             /\ Len(text) >= 2
             /\ SubSeq(text, Len(text), Len(text)) \in {")", "]", "}"})
                => /\ \A k \in 0..n : LastEntry(text) = More(k) => k + shown = n
                   /\ shown = n => ~marked

C12_OmissionHonesty == []C12_Results /\ [][C12_ReturnStep]_vars

C12_Witness ==
    \E i \in Finished(1) :
        /\ CallOf(1, i).obj = "range"
        /\ EndsWith(results[1][i].text, "...9 more]")
        /\ Cardinality(TopSeparators(results[1][i].text)) = 3

\* the frames of the dict, sequence and set renderers inside their loop
InLoop(f) == f.fn \in Allocators /\ f.pc # "start"

\* the room the marker for u unshown entries takes after the parts shown
MarkerRoom(parts, u) ==
    IF u = 0 THEN 0
    ELSE IF parts = <<>> THEN Len("...") + Len(Str(u)) + Len(" more")
    ELSE Len(", ...") + Len(Str(u)) + Len(" more")

\* C13: in the dict, sequence and set renderers the budget available to
\* an entry is remaining, less 2 when an entry was already shown, less
\* len(", ...K more") for K = (entries not yet shown) - 1 when K > 0;
\* after a shown entry whose render kept to its budget, remaining still
\* holds the separator and marker for the entries then unshown, and the
\* bracketed text with its final marker is then within the budget.
C13_Available ==
    \A t \in Threads : \A i \in 1..Len(stack[t]) :
        LET f == stack[t][i]
            unshown == Len(f.elems) - Len(f.parts)
        IN  InLoop(f)
               => /\ f.remaining = f.budget - Len(Join(f.parts))
                                   - (IF f.fn = "_render_dict" THEN 2
                                      ELSE Len(f.open_b) + Len(f.close_b))
                  /\ f.pc \in {"head_ret", "item_ret", "key_ret", "val_ret"}
                        => /\ f.available =
                                 f.remaining
                                 - (IF Len(f.parts) > 0 THEN 2 ELSE 0)
                                 - (IF unshown > 1
                                    THEN Len(", ...") + Len(Str(unshown - 1)) + Len(" more")
                                    ELSE 0)
                           /\ (f.pc \in {"head_ret", "item_ret"} /\ i < Len(stack[t]))
                                 => stack[t][i + 1].budget = f.available

C13_ShownStep ==
    \A t \in Threads :
        (/\ stack[t] # <<>>
         /\ InLoop(Top(t))
         /\ Top(t).pc \in {"head_ret", "item_ret", "val_ret"}
         /\ ret[t].kind = "val"
         /\ Len(stack'[t]) = Len(stack[t])
         /\ Len(Top(t).key_r) + Len(ret[t].text) <= Top(t).available)
            => LET g == stack'[t][Len(stack'[t])]
               IN  /\ Len(g.parts) = Len(Top(t).parts) + 1
                   /\ g.remaining >= MarkerRoom(g.parts, Len(g.elems) - Len(g.parts))

C13_ReturnStep ==
    \A t \in Threads :
        (/\ stack[t] # <<>>
         /\ InLoop(Top(t))
         /\ stack'[t] = Below(t)
         /\ ret'[t].kind = "val"
         /\ Top(t).remaining
               >= MarkerRoom(Top(t).parts, Len(Top(t).elems) - Len(Top(t).parts)))
            => Len(ret'[t].text) <= Top(t).budget

C13_Reservation ==
    []C13_Available /\ [][C13_ShownStep]_vars /\ [][C13_ReturnStep]_vars

C13_Witness ==
    \E i \in 1..Len(stack[1]) :
        /\ stack[1][i].fn = "_render_dict"
        /\ stack[1][i].pc = "val_ret"
        /\ Len(stack[1][i].parts) = 1
        /\ Len(stack[1][i].elems) = 3
        /\ stack[1][i].available = stack[1][i].remaining - 2 - Len(", ...1 more")

\* the renderers that pass a part of their budget on: the allocators,
\* render_attrs and the wrappers around the dict and sequence renderers
Subdividers ==
    Allocators \cup {"render_attrs", "_render_defaultdict", "_render_counter",
                     "_render_deque"}

\* C14: every render_child call a dict, sequence, set or attribute
\* renderer makes, and the inner render of a defaultdict, Counter or deque,
\* gets a budget strictly smaller than that renderer's own, so the budgets
\* of the renderers on the stack fall strictly from the root inwards.
C14_BudgetsShrink ==
    \A t \in Threads : \A i \in 1..Len(stack[t]) :
        stack[t][i].fn \in Subdividers
            => /\ i < Len(stack[t])
                     => /\ stack[t][i + 1].budget < stack[t][i].budget
                        /\ stack[t][i + 1].fn \in {"render_child", "_render_dict",
                                                   "_render_sequence"}
               /\ \A j \in 1..(i - 1) :
                     stack[t][j].fn \in Subdividers
                         => stack[t][i].budget < stack[t][j].budget
               /\ stack[t][i].budget <= stack[t][1].budget

C14_Witness ==
    \E i, j, k \in 1..Len(stack[1]) :
        /\ i < j /\ j < k
        /\ stack[1][i].fn = "_render_defaultdict"
        /\ stack[1][j].fn = "_render_dict"
        /\ stack[1][k].fn = "_render_sequence"
        /\ stack[1][k].budget < stack[1][j].budget - 2

\* a text in which a marker "...K more" is followed by a further entry
MarkerThenEntry(text) ==
    \E i \in TopSeparators(text) : \E k \in 1..Len(text) :
        /\ i > Len(More(k))
        /\ SubSeq(text, i - Len(More(k)), i - 1) = More(k)

\* the tail peek of the sequence renderer: its call of render_child for
\* the last element, or a call that has just returned a text with an entry
\* after the marker
TailShown ==
    \/ \E t \in Threads : \E i \in 1..Len(stack[t]) :
          stack[t][i].fn = "_render_sequence" /\ stack[t][i].pc = "tail_ret"
    \/ \E t \in Threads :
          /\ results[t] # <<>>
          /\ MarkerThenEntry(results[t][Len(results[t])].text)

\* C15: there are a list or tuple of at least 3 elements and a budget too
\* small to show all of them for which the sequence renderer gives the head
\* entries, then the marker "...K more", then the last element: a client
\* that renders the long sequences at every budget in turn sees such a text.
C15_TailPeek == (script[1] = SweepScript) => <>TailShown

\* what the model finds in its place: the renderer never calls
\* render_child for the last element
TailNeverShown == ~TailShown

\* what holds of every frame of the dict renderer: the budgets of the
\* key and of the value
C16_Budgets ==
    \A t \in Threads : \A i \in 1..Len(stack[t]) :
        LET f == stack[t][i]
            half == f.available \div 2
        IN  f.fn = "_render_dict"
               => /\ (f.pc = "key_ret" /\ i < Len(stack[t]))
                        => /\ stack[t][i + 1].fn = "render_child"
                           /\ stack[t][i + 1].obj = f.elems[Len(f.parts) + 1][1]
                           /\ stack[t][i + 1].budget = IF half < KEY_CAP THEN half ELSE KEY_CAP
                  /\ (f.pc = "val_ret" /\ i < Len(stack[t]))
                        => /\ stack[t][i + 1].fn = "render_child"
                           /\ stack[t][i + 1].obj = f.elems[Len(f.parts) + 1][2]
                           /\ stack[t][i + 1].budget = f.available - Len(f.key_r)
                           /\ stack[t][i + 1].budget >= MIN_CHILD_BUDGET

\* the rendered key a dict frame has just got back is at most KEY_CAP
\* characters and at most half of available, for every available or only
\* for those in range
C16_KeyLength(range) ==
    \A t \in Threads :
        (/\ Running(t, "_render_dict", "key_ret")
         /\ ret[t].kind = "val"
         /\ Top(t).available \in range)
            => /\ Len(ret[t].text) <= KEY_CAP
               /\ 2 * Len(ret[t].text) <= Top(t).available

C16_KeyStep ==
    \A t \in Threads :
        (Running(t, "_render_dict", "key_ret") /\ ret[t].kind = "val"
         /\ stack'[t] # stack[t])
            => LET f == Top(t)
                   val_budget == f.available - Len(ret[t].text) - 2
               IN  IF val_budget < MIN_CHILD_BUDGET
                   THEN /\ stack'[t] = Below(t)
                        /\ ret'[t].kind = "val"
                        /\ EndsWith(ret'[t].text,
                                    More(Len(f.elems) - Len(f.parts)) \o "}")
                   ELSE /\ Len(stack'[t]) = Len(stack[t]) + 1
                        /\ stack'[t][Len(stack[t])].key_r = ret[t].text \o ": "
                        /\ stack'[t][Len(stack'[t])].budget = val_budget

StubsOf(f, from, count) ==
    [k \in 1..count |-> f.elems[from + k][1] \o "=" \o _type_stub(f.elems[from + k][2])]

\* the text with the parts of phase 1, then count stubs, then the marker
\* for the rest
Assembled(f, count) ==
    LET full == Len(f.parts)
        rest == Len(f.elems) - full - count
        marker == IF rest > 0 THEN <<"..." \o Str(rest) \o " more">> ELSE <<>>
    IN  f.type_name \o "(" \o Join(f.parts \o StubsOf(f, full, count) \o marker) \o ")"

\* whether the stub of attribute j fits after the parts shown: stub,
\* separator and the room for a later marker within what remains
StubFits(f, shown, j) ==
    LET stub == f.elems[j][1] \o "=" \o _type_stub(f.elems[j][2])
        later == Len(f.elems) - j
        left == f.budget - Len(f.type_name) - 2 - Len(Join(shown))
    IN  Len(stub) + (IF shown = <<>> THEN 0 ELSE 2)
           + (IF later > 0 THEN Len(", ...") + Len(Str(later)) + Len(" more") ELSE 0)
        <= left

\* C17: in the text TypeName(...) of render_attrs the fully rendered
\* attributes are a prefix of the attribute order, then comes a run of
\* stubs name=<Type> or name=<Type(len)> of the next attributes, then at
\* most one marker "...K more"; a stub is added only if it, its separator
\* and the room for a later marker fit in what remains, and full + stubs
\* + K is the number of attributes.
C17_ReturnStep ==
    \A t \in Threads :
        (/\ Running(t, "render_attrs", "full")
         /\ stack'[t] = Below(t)
         /\ ret'[t].kind = "val"
         /\ StartsWith(ret'[t].text, Top(t).type_name \o "("))
            => LET f == Top(t)
                   full == Len(f.parts)
               IN  /\ \A k \in 1..full : StartsWith(f.parts[k], f.elems[k][1] \o "=")
                   /\ \E count \in 0..(Len(f.elems) - full) :
                         /\ ret'[t].text = Assembled(f, count)
                         /\ \A j \in 1..count :
                               StubFits(f, f.parts \o StubsOf(f, full, j - 1), full + j)
                         /\ full + count < Len(f.elems)
                               => ~StubFits(f, f.parts \o StubsOf(f, full, count),
                                            full + count + 1)

C17_ThreePhases == [][C17_ReturnStep]_vars

C17_Witness ==
    \E i \in Finished(1) :
        /\ CallOf(1, i).obj = "wide"
        /\ results[1][i].text = "Wide(a='alpha', b=<str(5)>, ...2 more)"

\* the number of stubs phase 2 adds after the parts of frame f: each of
\* them fits and the next one does not
StubCount(f) ==
    LET full == Len(f.parts)
    IN  CHOOSE count \in 0..(Len(f.elems) - full) :
            /\ \A j \in 1..count :
                  StubFits(f, f.parts \o StubsOf(f, full, j - 1), full + j)
            /\ full + count < Len(f.elems)
                  => ~StubFits(f, f.parts \o StubsOf(f, full, count), full + count + 1)

\* the tag <TypeName> cut to the budget
ClippedTag(f) == SubSeq("<" \o f.type_name \o ">", 1, Min(f.budget, Len(f.type_name) + 2))

\* C18: render_attrs returns the tag <TypeName> cut to the budget when
\* budget <= len("TypeName()") and when the assembled TypeName(...) text
\* is longer than the budget, the assembled text in every other case with
\* an attribute, and never more than budget characters.
C18_ReturnStep ==
    \A t \in Threads :
        (/\ stack[t] # <<>>
         /\ Top(t).fn = "render_attrs"
         /\ stack'[t] = Below(t)
         /\ ret'[t].kind = "val")
            => LET f == Top(t)
                   text == ret'[t].text
                   assembled == Assembled(f, StubCount(f))
               IN  /\ Len(text) <= f.budget
                   /\ f.budget <= Len(f.type_name \o "()") => text = ClippedTag(f)
                   /\ (f.elems # <<>> /\ f.budget > Len(f.type_name \o "()"))
                         => /\ f.pc = "full"
                            /\ text = IF Len(assembled) > f.budget
                                      THEN ClippedTag(f) ELSE assembled

C18_TagFallback == [][C18_ReturnStep]_vars

\* a record with room for more than its shell whose assembled text is too
\* long all the same
C18_Witness ==
    \E i \in Finished(1) :
        /\ CallOf(1, i).obj = "wide"
        /\ CallOf(1, i).budget > Len("Wide()")
        /\ results[1][i].text = "<Wide>"

\* the calls of the generic fallback on a byte string that does not fit:
\* a render_child of a bytes object whose generic text has come back
BytesCut(t) ==
    /\ Running(t, "render_child", "exit")
    /\ Top(t).branch = "generic"
    /\ ret[t].kind = "val"
    /\ IsInstance(TypeOf(Top(t).obj), "bytes")
    /\ Top(t).budget >= 6
    /\ Len(ReprBytes(Heap[Top(t).obj].s)) > Top(t).budget

\* C19: a byte string whose quoted form is longer than the budget
\* (budget >= 6) is rendered as b', a decoded leading part of the bytes,
\* the marker ... and the closing quote, and that text is at most budget
\* characters long.
C19_BytesTruncation ==
    \A t \in Threads :
        BytesCut(t)
            => /\ \E k \in 0..Len(Heap[Top(t).obj].s) :
                     ret[t].text
                        = "b'" \o DecodeReplace(SubSeq(Heap[Top(t).obj].s, 1, k)) \o "...'"
               /\ Len(ret[t].text) <= Top(t).budget

\* the calls of the generic fallback on a text string: a render_child of a
\* str object whose generic text has come back
StrCall(t) ==
    /\ Running(t, "render_child", "exit")
    /\ Top(t).branch = "generic"
    /\ ret[t].kind = "val"
    /\ IsInstance(TypeOf(Top(t).obj), "str")

\* the text of such a call by the three cases: the quoted form when it
\* fits, quote + leading characters + ... + quote from budget 6 on, the
\* head of the quoted form below
StrShape(t) ==
    LET obj == Heap[Top(t).obj].s
        r == ReprStr(obj)
        quote == SubSeq(r, 1, 1)
        budget == Top(t).budget
        text == ret[t].text
    IN  IF Len(r) <= budget THEN text = r
        ELSE IF budget >= 6
             THEN /\ text = quote \o SubSeq(obj, 1, Min(budget - 5, Len(obj)))
                               \o "..." \o quote
                  /\ StartsWith(text, quote)
                  /\ EndsWith(text, quote)
                  /\ Contains(text, "...")
             ELSE text = SubSeq(r, 1, Min(budget, Len(r)))

StrCut(t) ==
    /\ StrCall(t)
    /\ Len(ReprStr(Heap[Top(t).obj].s)) > Top(t).budget
    /\ Top(t).budget >= 6

\* C20 as the claim states it: a string that does not fit a budget >= 6
\* comes out exactly budget characters long.
C20_AsStated ==
    \A t \in Threads :
        /\ StrCall(t) => StrShape(t)
        /\ StrCut(t) => Len(ret[t].text) = Top(t).budget

\* C20: a string whose quoted form fits is returned as that form; one that
\* does not fit a budget >= 6 comes out as the quote, the first
\* budget - 5 characters of the string (all of them when it has fewer),
\* ... and the quote, min(budget, len + 5) characters long, that is
\* exactly budget when the string has budget - 5 characters or more;
\* below 6 the output is the first budget characters of the quoted form.
C20_TextTruncation ==
    \A t \in Threads :
        /\ StrCall(t) => StrShape(t)
        /\ StrCut(t)
              => Len(ret[t].text) = Min(Top(t).budget, Len(Heap[Top(t).obj].s) + 5)

\* a cut string of exactly budget characters
C20_Witness ==
    /\ StrCut(1)
    /\ Top(1).obj = "long"
    /\ Top(1).budget = 10
    /\ ret[1].text = "'hello...'"

\* ---- complete renderings
\* repr() of a scalar
ScalarRepr(id) ==
    IF TypeOf(id) = "str" THEN ReprStr(Heap[id].s)
    ELSE IF TypeOf(id) = "bytes" THEN ReprBytes(Heap[id].s)
    ELSE ReprPrimitive(id)

\* the lists, tuples, dicts, namedtuples and dataclasses of the heap whose
\* entries are all scalars
ScalarComposites ==
    {id \in Ids :
        LET o == Heap[id]
            ty == Types[o.type]
        IN  \/ o.type \in {"list", "tuple"} /\ o.items # <<>>
                 /\ \A k \in DOMAIN o.items : IsExempt(TypeOf(o.items[k]))
            \/ o.type = "dict" /\ o.pairs # <<>>
                 /\ \A k \in DOMAIN o.pairs :
                       IsExempt(TypeOf(o.pairs[k][1])) /\ IsExempt(TypeOf(o.pairs[k][2]))
            \/ ty.fields # <<>> /\ \A k \in DOMAIN o.items : IsExempt(TypeOf(o.items[k]))
            \/ ty.dataclass /\ o.attrs # <<>>
                 /\ \A k \in DOMAIN o.attrs : IsExempt(TypeOf(o.attrs[k][2]))}

\* every entry shown, no marker, no stub
FullRendering(id) ==
    LET o == Heap[id]
        ty == Types[o.type]
    IN  IF o.type = "list"
        THEN "[" \o Join([k \in DOMAIN o.items |-> ScalarRepr(o.items[k])]) \o "]"
        ELSE IF o.type = "tuple"
        THEN "(" \o Join([k \in DOMAIN o.items |-> ScalarRepr(o.items[k])]) \o ")"
        ELSE IF o.type = "dict"
        THEN "{" \o Join([k \in DOMAIN o.pairs |->
                            ScalarRepr(o.pairs[k][1]) \o ": " \o ScalarRepr(o.pairs[k][2])])
                 \o "}"
        ELSE IF ty.fields # <<>>
        THEN o.type \o "("
                 \o Join([k \in DOMAIN o.items |->
                            ty.fields[k] \o "=" \o ScalarRepr(o.items[k])]) \o ")"
        ELSE o.type \o "("
                 \o Join([k \in DOMAIN o.attrs |->
                            o.attrs[k][1] \o "=" \o ScalarRepr(o.attrs[k][2])]) \o ")"

\* C21: render of a list, tuple, dict, namedtuple or dataclass of scalars
\* whose complete rendering is at most budget characters long returns
\* exactly that complete rendering, without marker or stub.
C21_SmallInFull ==
    \A t \in Threads : \A i \in Finished(t) :
        (/\ CallOf(t, i).op = "render"
         /\ CallOf(t, i).obj \in ScalarComposites
         /\ Len(FullRendering(CallOf(t, i).obj)) <= CallOf(t, i).budget)
            => results[t][i] = Val(FullRendering(CallOf(t, i).obj))

\* "..."[:budget] for a budget below 5
Placeholder(budget) ==
    IF budget >= 3 THEN "..."
    ELSE IF budget >= 0 THEN SubSeq("...", 1, budget)
    ELSE SubSeq("...", 1, Max(0, 3 + budget))

\* C22: for every budget < 5 and every value, cyclic, with a hook or a
\* registered formatter included, render_child returns "..." sliced to
\* budget at once: no formatter or renderer frame is entered, the cycle
\* guard and the policy stay as they are, no error is raised where no
\* render is active, and the value's own short form is not used.
C22_FloorStep ==
    \A t \in Threads :
        (/\ Running(t, "render_child", "start")
         /\ Top(t).budget < 5
         /\ stack'[t] # stack[t])
            => /\ stack'[t] = Below(t)
               /\ ctx' = ctx
               /\ registry' = registry
               /\ IF Below(t) = <<>>
                  THEN results'[t] = Append(results[t], Val(Placeholder(Top(t).budget)))
                  ELSE ret'[t] = Val(Placeholder(Top(t).budget))

C22_MinimumFloor == [][C22_FloorStep]_vars

\* a value whose hook raises and a cyclic list, asked for with no render
\* active and with budget 4: the placeholder comes back
C22_Witness ==
    \E i \in Finished(1) :
        /\ CallOf(1, i).op = "render_child"
        /\ CallOf(1, i).obj \in {"raiser", "selfList"}
        /\ CallOf(1, i).budget = 4
        /\ results[1][i] = Val("...")

C23_EnterStep ==
    \A t \in Threads :
        (/\ Running(t, "render_child", "start")
         /\ Top(t).budget >= MIN_BUDGET
         /\ ~IsExempt(TypeOf(Top(t).obj))
         /\ ctx[CtxKey(t)].has_seen
         /\ Top(t).obj \notin ActiveIds(Below(t))
         /\ stack'[t] # stack[t])
            => /\ Len(stack'[t]) >= Len(stack[t])
               /\ stack'[t][Len(stack[t])].fn = "render_child"
               /\ stack'[t][Len(stack[t])].pc = "exit"
               /\ Top(t).obj \in ctx'[CtxKey(t)].seen

NdarrayReturned(t) ==
    /\ Running(t, "render_child", "exit")
    /\ Top(t).branch = "registry"
    /\ TypeOf(Top(t).obj) = "ndarray"
    /\ registry["ndarray"] = "ndarray"
    /\ ret[t].kind = "val"

\* C24: the text render_ndarray returns is at most as long as the budget
\* it was given, for every array and budget: header, ", [", the peeked
\* values, the marker and "])" fit by themselves, so the dispatcher's
\* slice never cuts the text before its closing "])".
C24_FormatterFits ==
    \A t \in Threads :
        NdarrayReturned(t)
            => /\ Len(ret[t].text) <= Top(t).budget
               /\ Clamp(Top(t).branch, ret[t].text, Top(t).budget) = ret[t].text

\* the same value at the same budget rendered under greedy, then under even
BothPolicies(t) ==
    /\ Len(results[t]) = 2
    /\ CallOf(t, 1).op = "render" /\ CallOf(t, 1).policy = "greedy"
    /\ CallOf(t, 2).op = "render" /\ CallOf(t, 2).policy = "even"
    /\ CallOf(t, 1).obj = CallOf(t, 2).obj
    /\ CallOf(t, 1).budget = CallOf(t, 2).budget

\* what phase 1 of render_attrs gives the next attribute, name and "="
\* included: what is left after separator and marker, under even capped
\* at the equal share while more than one attribute is unrendered
C25_CapStep ==
    \A t \in Threads :
        (/\ Running(t, "render_attrs", "full")
         /\ Len(stack'[t]) = Len(stack[t]) + 1)
            => LET f == Top(t)
                   rest == Len(f.elems) - f.idx
                   sep == IF f.parts = <<>> THEN 0 ELSE 2
                   reserve == IF rest > 1
                              THEN Len(", ...") + Len(Str(rest - 1)) + Len(" more")
                              ELSE 0
                   greedy == f.remaining - sep - reserve
                   share == (f.remaining - 2 * (rest - 1)) \div rest
                   given == stack'[t][Len(stack'[t])].budget
                              + Len(f.elems[f.idx + 1][1]) + 1
               IN  given = IF PolicyGet(ctx[CtxKey(t)]) = "even" /\ rest > 1
                           THEN Min(greedy, share) ELSE greedy

\* C25: for every value without an attribute bag at any depth and every
\* budget, render under even equals render under greedy; inside
\* render_attrs the even cap applies only while more than one attribute is
\* unrendered and limits the attribute to (remaining - 2*(rest-1)) // rest
\* characters.
C25_PolicyBagsOnly ==
    /\ [](\A t \in Threads :
             (BothPolicies(t) /\ CallOf(t, 1).obj \in BagFreeRoots)
                => results[t][1] = results[t][2])
    /\ [][C25_CapStep]_vars

\* a list without attribute bags, truncated, rendered under both policies
C25_Witness ==
    /\ BothPolicies(1)
    /\ CallOf(1, 1).obj = "range"
    /\ CallOf(1, 1).obj \in BagFreeRoots
    /\ Contains(results[1][2].text, " more")

\* the values whose repr() raises
ReprRaises(id) == Types[TypeOf(id)].repr = "raises"

\* the optimistic attempt of _render_object or of the DataFrame renderer on
\* such a value goes on to the decomposition and raises nothing
C26_AttemptStep ==
    \A t \in Threads :
        (/\ stack[t] # <<>>
         /\ \/ Running(t, "_render_object", "start")
            \/ Running(t, "formatter", "start") /\ Top(t).prog = "dataframe"
         /\ ReprRaises(Top(t).obj)
         /\ stack'[t] # stack[t])
            => /\ ret'[t].kind # "exc"
               /\ results'[t] = results[t]
                     \/ results'[t][Len(results'[t])].kind = "val"
               /\ Running(t, "_render_object", "start")
                     => /\ Len(stack'[t]) = Len(stack[t])
                        /\ stack'[t][Len(stack'[t])].fn = "render_attrs"
                        /\ stack'[t][Len(stack'[t])].budget = Top(t).budget

====
